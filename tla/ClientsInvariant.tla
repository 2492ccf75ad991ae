---------------------------- MODULE ClientsInvariant ----------------------------
(***************************************************************************)
(* What the clients keep true, for every number of calls under way, every  *)
(* opening and every set of requests, documents and tokens.                *)
(*                                                                         *)
(* All of it rests on ClientInv: the state of each page has its type, a    *)
(* handler of the mounted page belongs to it, and what the API answered to *)
(* a call is still true of what it has stored.  SpinInv adds that a page   *)
(* which waits has a call under way that will tell it.                     *)
(***************************************************************************)
EXTENDS Clients, SequenceTheorems, TLAPS

Values == {"", "given", "MALE", "other"}
Profiles == [Fields -> Values] \cup {NullProfile}
AccountOrNone == Accounts \cup {None}
EmailOrNone == {Holder, Newcomer, None}
Answers == [request : Requests, approved : BOOLEAN]
Statuses == {"ACTIVE", "SUSPENDED"}
Resolutions == {"RESOLVED_FALSE_POSITIVE", "RESOLVED_DUPLICATE"}
ReviewStatuses == {"PENDING_REVIEW", "APPROVED", "REJECTED"}

-----------------------------------------------------------------------------
(* The server and the event stream. *)

\* The answers to requests that the API is working on.
Answerings == [by : Nat, request : Requests, approved : BOOLEAN, stored : BOOLEAN]

WorldType ==
    [accounts : SUBSET Accounts, codes : SUBSET {Holder, Newcomer},
     profile : [Fields -> Values],
     consent : [Requests -> {"NONE", "PENDING", "APPROVED", "REJECTED"}],
     answering : SUBSET Answerings, recorded : SUBSET Answers,
     amendments : Amendments, approved : SUBSET Nat, documents : SUBSET Documents, spent : SUBSET QRTokens,
     status : Statuses, suspended : BOOLEAN, flag : {"PENDING_REVIEW"} \cup Resolutions]

\* The facts that are never taken back.
Grown(before, after) ==
    /\ before.accounts \subseteq after.accounts
    /\ before.spent \subseteq after.spent
    /\ before.documents \subseteq after.documents
    /\ before.suspended => after.suspended
    /\ before.recorded \subseteq after.recorded
    /\ before.approved \subseteq after.approved
    /\ DOMAIN before.amendments \subseteq DOMAIN after.amendments

\* What the answer says.
Said(x) == [request |-> x.request, approved |-> x.approved]

\* An answer that was stored is on record; a flag confirmed as a duplicate has
\* its suspect suspended.
WorldOK(w) ==
    /\ w \in WorldType
    /\ \A x \in w.answering : x.stored => Said(x) \in w.recorded
    /\ w.flag = "RESOLVED_DUPLICATE" => w.suspended

Follows(before, after) == Grown(before, after) /\ WorldOK(after)

Approved(w) == w.approved # {}

Notices == {"CONSENT_REQUEST_CREATED", "AMENDMENT_APPROVED", "AMENDMENT_REJECTED"}

\* The event stream of the dashboard is about its holder, that of the
\* organization about a request; and an event under way is true.
HolderFeed ==
    [state : {"connecting", "open", "refused"}, as : Accounts, about : {None},
     queue : [{"identity", "eka_id"} -> Seq(Notices)]]

RequestFeed ==
    [state : {"connecting", "open", "refused"}, as : Accounts, about : Requests,
     queue : [{"request"} -> Seq(Answers)]]

NoticesTrue(f, w) ==
    \A topic \in {"identity", "eka_id"} : \A i \in DOMAIN f.queue[topic] :
        f.queue[topic][i] = "AMENDMENT_APPROVED" => Approved(w)

AnswersTrue(f, w) ==
    \A i \in DOMAIN f.queue["request"] : f.queue["request"][i] \in w.recorded

FeedInv ==
    \/ feed = NoFeed
    \/ feed \in HolderFeed /\ On("dashboard") /\ NoticesTrue(feed, world)
    \/ feed \in RequestFeed /\ On("org") /\ AnswersTrue(feed, world)

-----------------------------------------------------------------------------
(* The handlers under way. *)

Handlers(page) ==
    CASE page = "login" -> {"login"}
      [] page = "register" -> {"otp", "register"}
      [] page = "verify" -> {"verify"}
      [] page = "org" -> {"recruiter", "create"}
      [] page = "dashboard" -> {"load identity", "load requests", "load history", "load qr",
                                "refresh", "consent", "consent refresh", "qr", "vc", "did",
                                "amend", "read", "upload"}
      [] page = "admin" -> {"lists", "admin login", "status", "resolve", "suspend"}
      [] OTHER -> {}

\* What a handler awaits.
AwaitsOK(by, functions) ==
    /\ by \in {"login", "recruiter", "admin login"} => functions = {"loginUser"}
    /\ by = "otp" => functions = {"requestOTP"}
    /\ by = "register" => functions = {"registerUser"}
    /\ by = "verify" => functions = {"verifyQRToken"}
    /\ by = "create" => functions = {"createVerificationRequest"}
    /\ by = "load identity" => functions = {"getMyIdentity"}
    /\ by \in {"load requests", "refresh", "consent refresh"} =>
           functions = {"getPendingVerificationRequests"}
    /\ by = "load history" => functions = {"listMyAmendments", "listMyDocuments"}
    /\ by \in {"load qr", "qr"} => functions = {"generateQRToken"}
    /\ by = "consent" => functions = {"respondVerificationRequest"}
    /\ by = "vc" => functions = {"getCredentialW3C"}
    /\ by = "did" => functions = {"getDIDDocument"}
    /\ by = "amend" => functions = {"createAmendmentRequest"}
    /\ by = "read" => functions = {}
    /\ by = "upload" => functions = {"uploadIdentityDocument"}
    /\ by = "lists" => functions = Lists
    /\ by \in {"status", "suspend"} => functions = {"adminUpdateStatus"}
    /\ by = "resolve" => functions = {"adminResolveDuplicate"}

\* The arguments that handlers keep for later.
KeepsOK(by, arg) ==
    /\ by = "load qr" => arg = DefaultQR
    /\ by = "qr" => arg \in {"default", "custom"} \X {5, 15}
    /\ by = "consent" => arg \in Answers
    /\ by = "suspend" =>
           arg = [status |-> "SUSPENDED", resolution |-> "RESOLVED_DUPLICATE"]
    /\ by = "read" => arg \in Documents
    /\ by = "amend" /\ ~arg.profileless =>
           DOMAIN arg.changes \subseteq arg.edited \cup (IF arg.genderless THEN {"gender"} ELSE {})

\* The argument a function is called with.
ArgumentOK(arg, f, w) ==
    /\ f = "requestOTP" => arg.email \in {Holder, Newcomer}
    /\ f = "verifyQRToken" => arg \in QRTokens
    /\ f = "respondVerificationRequest" => arg \in Answers
    /\ f = "adminUpdateStatus" => arg.status \in Statuses
    /\ f = "adminResolveDuplicate" =>
           /\ arg.resolution \in Resolutions
           /\ arg.resolution = "RESOLVED_DUPLICATE" => w.suspended
    /\ f = "uploadIdentityDocument" => arg \in Documents
    /\ f = "createAmendmentRequest" => arg.changes \in Changes /\ arg.documents \subseteq Documents
    /\ f = "generateQRToken" =>
           arg \in {"default", "custom"} \X {5, 15}

\* What an answer says, and will be true of the server from then on.
Promised(arg, f, value, w) ==
    /\ f = "loginUser" => value \in w.accounts
    /\ f = "registerUser" => value = arg.email /\ value \in w.accounts
    /\ f = "getMyIdentity" => value \in [account : Accounts, profile : Profiles]
    /\ f = "verifyQRToken" => value = arg
    /\ f = "getPendingVerificationRequests" => value \subseteq Requests
    /\ f = "respondVerificationRequest" => arg \in w.recorded
    /\ f = "createVerificationRequest" => value \in Requests
    /\ f = "generateQRToken" => value = arg
    /\ f = "adminListIdentities" => value \in Statuses
    /\ f = "adminUpdateStatus" => (arg.status = "SUSPENDED" => w.suspended)
    /\ f = "adminListDuplicates" => value \in BOOLEAN
    /\ f = "adminListAmendments" => value \in Seq(ReviewStatuses)
    /\ f = "uploadIdentityDocument" => value = arg /\ value \in w.documents
    /\ f = "listMyDocuments" => value \subseteq Documents
    /\ f = "createAmendmentRequest" => value \in DOMAIN w.amendments
    /\ f = "listMyAmendments" => value \subseteq Nat

AnswerOK(arg, f, answer, w) ==
    \/ answer \in {Waiting, Threw}
    \/ answer = Ok(answer.value) /\ Promised(arg, f, answer.value, w)

CallFields == {"by", "arg", "token", "mounted", "got"}

CallOK(call, w) ==
    /\ DOMAIN call = CallFields
    /\ call.by \in UNION {Handlers(page) : page \in Routes}
    /\ call.mounted \in BOOLEAN
    /\ AwaitsOK(call.by, DOMAIN call.got) /\ KeepsOK(call.by, call.arg)
    /\ \A f \in DOMAIN call.got : ArgumentOK(call.arg, f, w) /\ AnswerOK(call.arg, f, call.got[f], w)

\* A handler whose page is mounted still belongs to that page.
CallsInv ==
    /\ calls = [c \in 1 .. MaxCalls |-> calls[c]]
    /\ \A c \in 1 .. MaxCalls :
           calls[c] # NoCall =>
               /\ CallOK(calls[c], world)
               /\ calls[c].mounted => ui.mounted /\ calls[c].by \in Handlers(ui.page)

-----------------------------------------------------------------------------
(* The pages. *)

LoginState == [page : {"login"}, mounted : {TRUE}, loading : BOOLEAN, error : BOOLEAN]

RegisterState ==
    [page : {"register"}, mounted : {TRUE}, step : {1, 2, 3, 4}, loading : BOOLEAN, error : BOOLEAN,
     email : EmailOrNone, otp : EmailOrNone, createdFor : AccountOrNone]

VerifyStates ==
    [page : {"verify"}, mounted : {TRUE}, link : QRTokens \cup {None},
     input : QRTokens \cup {None}, loading : BOOLEAN, result : QRTokens \cup {None},
     error : BOOLEAN, asked : QRTokens \cup {None}, sent : SUBSET QRTokens,
     overlapped : BOOLEAN]

OrgState ==
    [page : {"org"}, mounted : {TRUE}, loading : BOOLEAN, error : BOOLEAN,
     submitted : Requests \cup {None}, live : Answers \cup {None}]

Messages ==
    {NoMessage, [about |-> "approval"], [about |-> "qr"]}
        \cup [about : {"consent"}, answer : Answers]
        \cup [about : {"amendment"}, id : Nat]
        \cup [about : {"document"}, id : Documents]

DashboardStates ==
    [page : {"dashboard"}, mounted : {TRUE}, closure : AccountOrNone,
     loading : BOOLEAN, error : BOOLEAN, identity : AccountOrNone,
     profile : Profiles, form : [Fields -> Values], edited : SUBSET Fields,
     requests : SUBSET Requests, amendments : SUBSET Nat, documents : SUBSET Documents,
     selected : SUBSET Documents,
     qr : {None} \cup ({"default", "custom"} \X {5, 15}),
     scopes : {"default", "custom"}, duration : {5, 15},
     connected : BOOLEAN, alert : BOOLEAN, success : Messages, timer : BOOLEAN,
     generating : BOOLEAN, uploading : BOOLEAN, submitting : BOOLEAN, loadingVC : BOOLEAN, vc : BOOLEAN, loadingDID : BOOLEAN,
     did : BOOLEAN, modal : BOOLEAN]

\* The form differs from the profile where somebody typed, and in the gender
\* it proposes for a profile without one; without a profile it is anything.
FormOK(state) ==
    \A field \in Fields :
        \/ state.profile = NullProfile
        \/ state.form[field] = state.profile[field]
        \/ state.form[field] = "other" /\ field \in state.edited
        \/ field = "gender" /\ state.profile.gender = "" /\ state.form[field] = "MALE"

AdminStates ==
    [page : {"admin"}, mounted : {TRUE}, loading : BOOLEAN, needsAdminAuth : BOOLEAN,
     error : BOOLEAN, success : BOOLEAN, status : Statuses \cup {None}, flagged : BOOLEAN,
     amendments : Seq(ReviewStatuses), rejecting : Nat \cup {None}, database : BOOLEAN]

UiInv ==
    \/ ui \in [page : Routes \cup {"desktop"}, mounted : {FALSE}]
    \/ ui = [page |-> "home", mounted |-> TRUE]
    \/ ui \in LoginState
    \/ ui \in RegisterState
    \/ ui \in VerifyStates
    \/ ui \in OrgState
    \/ ui \in DashboardStates /\ FormOK(ui)
    \/ ui \in AdminStates

\* The call that a form waits for: there is one at most, and the form shows it,
\* unless the link of the verify page changed under it.
Pending(c) == calls[c].mounted /\ calls[c].by \in Submissions

Overlapped == On("verify") /\ ui.overlapped

FormInv ==
    ~Overlapped => \A c \in 1 .. MaxCalls : Pending(c) =>
        /\ ui.loading
        /\ \A d \in 1 .. MaxCalls : Pending(d) => c = d

WizardInv ==
    On("register") /\ ui.step = 4 =>
        /\ ui.createdFor \in world.accounts
        /\ \A c \in 1 .. MaxCalls : ~Pending(c)

\* An answer about the token may be shown.
VerdictOK(page, token) == token \in page.sent /\ (~page.overlapped => token = page.asked)

VerifyInv ==
    On("verify") =>
        /\ ui.result # None => VerdictOK(ui, ui.result)
        /\ \A c \in 1 .. MaxCalls : Pending(c) => VerdictOK(ui, calls[c].arg)

OrgInv ==
    On("org") =>
        /\ ui.live # None =>
               /\ ui.submitted = ui.live.request
               /\ ui.live \in world.recorded
        /\ \A c \in 1 .. MaxCalls : Pending(c) /\ calls[c].by = "create" =>
               ui.submitted = None /\ ui.live = None

PagesInv == FormInv /\ WizardInv /\ VerifyInv /\ OrgInv /\ SuccessIsTrue

\* The session.
SessionInv ==
    /\ stored \in world.accounts \cup {None}
    /\ session \in AccountOrNone
    /\ booted \in BOOLEAN
    /\ booted => session = stored

ClientInv ==
    /\ WorldOK(world)
    /\ FeedInv
    /\ CallsInv
    /\ UiInv
    /\ SessionInv
    /\ PagesInv

-----------------------------------------------------------------------------
(* What the API stores only grows, and what was answered stays true. *)

\* A state of the server grows from itself.
LEMMA GrownReflexive == ASSUME NEW w \in WorldType PROVE Grown(w, w)
  BY DEF Grown

\* An argument that may be sent may be sent later.
LEMMA ArgumentsGrow ==
    ASSUME NEW v, NEW w, Grown(v, w), v.suspended \in BOOLEAN, w.suspended \in BOOLEAN,
           NEW arg, NEW f, ArgumentOK(arg, f, v)
    PROVE  ArgumentOK(arg, f, w)
  BY DEF ArgumentOK, Grown

\* What was answered stays true.
LEMMA PromisesGrow ==
    ASSUME NEW v \in WorldType, NEW w \in WorldType, Grown(v, w),
           NEW arg, NEW f, NEW value, ArgumentOK(arg, f, v), Promised(arg, f, value, v)
    PROVE  Promised(arg, f, value, w)
<1>1. f = "respondVerificationRequest" => arg \in w.recorded
  BY DEF Promised, Grown
<1>2. f = "adminUpdateStatus" => (arg.status = "SUSPENDED" => w.suspended)
  BY DEF Promised, Grown
<1>3. /\ f = "loginUser" => value \in w.accounts
      /\ f = "registerUser" => value = arg.email /\ value \in w.accounts
      /\ f = "uploadIdentityDocument" => value = arg /\ value \in w.documents
      /\ f = "createAmendmentRequest" => value \in DOMAIN w.amendments
  BY DEF Promised, Grown
<1> QED
  BY <1>1, <1>2, <1>3 DEF Promised

\* A handler under way stays as it should be while the server goes on.
LEMMA CallsGrow ==
    ASSUME NEW v \in WorldType, NEW w \in WorldType, Grown(v, w), NEW call, CallOK(call, v)
    PROVE  CallOK(call, w)
<1>1. ASSUME NEW f \in DOMAIN call.got
      PROVE  ArgumentOK(call.arg, f, w) /\ AnswerOK(call.arg, f, call.got[f], w)
  <2>1. ArgumentOK(call.arg, f, v) /\ AnswerOK(call.arg, f, call.got[f], v)
    BY DEF CallOK
  <2>2. ArgumentOK(call.arg, f, w)
    BY <2>1, ArgumentsGrow DEF WorldType
  <2>3. AnswerOK(call.arg, f, call.got[f], w)
    BY <2>1, PromisesGrow DEF AnswerOK
  <2> QED
    BY <2>2, <2>3
<1> QED
  BY <1>1 DEF CallOK

-----------------------------------------------------------------------------
(* How the handlers under way change. *)

\* A handler that waits for the same.
LEMMA SimilarCall ==
    ASSUME NEW call, NEW next, NEW w, CallOK(call, w),
           DOMAIN next = CallFields, next.by = call.by, next.arg = call.arg,
           next.mounted \in BOOLEAN, DOMAIN next.got = DOMAIN call.got,
           \A f \in DOMAIN call.got : AnswerOK(call.arg, f, next.got[f], w)
    PROVE  CallOK(next, w)
  BY DEF CallOK

\* A handler that goes on keeps its argument, its token and its page.
LEMMA NextCall ==
    ASSUME NEW call, DOMAIN call = CallFields, NEW by, NEW got
    PROVE  LET next == [call EXCEPT !.by = by, !.got = got] IN
           /\ DOMAIN next = CallFields
           /\ next.by = by /\ next.got = got
           /\ next.arg = call.arg /\ next.token = call.token /\ next.mounted = call.mounted
  BY DEF CallFields

\* A handler whose page is left goes on as before.
LEMMA UnmountedCall ==
    ASSUME NEW call, DOMAIN call = CallFields
    PROVE  LET next == [call EXCEPT !.mounted = FALSE] IN
           /\ DOMAIN next = CallFields
           /\ next.by = call.by /\ next.got = call.got
           /\ next.arg = call.arg /\ next.token = call.token /\ ~next.mounted
           /\ next.mounted \in BOOLEAN
  BY DEF CallFields

\* The page is mounted, or stays.
SamePage ==
    /\ ui'.mounted
    /\ ui.mounted => ui'.page = ui.page

\* A handler of the page starts.
LEMMA AwaitKeeps ==
    ASSUME CallsInv, NEW by, NEW arg, NEW token, NEW functions,
           Await(by, arg, token, functions),
           world' = world, SamePage,
           by \in Handlers(ui'.page), by \in UNION {Handlers(page) : page \in Routes},
           AwaitsOK(by, functions), KeepsOK(by, arg),
           \A f \in functions : ArgumentOK(arg, f, world)
    PROVE  CallsInv'
<1>1. PICK c \in 1 .. MaxCalls : calls' = [calls EXCEPT ![c] = Call(by, arg, token, functions)]
  BY DEF Await, Free, CallsInv
<1> DEFINE call == Call(by, arg, token, functions)
<1>2. /\ DOMAIN call = CallFields /\ call.got = [f \in functions |-> Waiting]
      /\ call.by = by /\ call.arg = arg /\ call.mounted /\ call.mounted \in BOOLEAN
  BY DEF Call, CallFields
<1> HIDE DEF call
<1>5. /\ calls' = [d \in 1 .. MaxCalls |-> calls'[d]]
      /\ \A d \in 1 .. MaxCalls : calls'[d] = IF d = c THEN call ELSE calls[d]
  BY <1>1 DEF CallsInv, call
<1>6. CallOK(call, world)
  BY <1>2 DEF CallOK, AnswerOK
<1> QED
  BY <1>2, <1>5, <1>6 DEF CallsInv, SamePage

\* A handler ends.
LEMMA EndKeeps ==
    ASSUME CallsInv, NEW c \in DOMAIN calls, End(c),
           world' = world, ui'.mounted = ui.mounted, ui'.page = ui.page
    PROVE  CallsInv'
<1>1. /\ calls' = [d \in 1 .. MaxCalls |-> calls'[d]]
      /\ \A d \in 1 .. MaxCalls : calls'[d] = IF d = c THEN NoCall ELSE calls[d]
  BY DEF End, Ended, CallsInv
<1> QED
  BY <1>1 DEF CallsInv

\* The handler c, which runs, becomes next: it goes on with what it awaits next.
LEMMA GoesOn ==
    ASSUME CallsInv, NEW c \in DOMAIN calls, calls[c] # NoCall, NEW next, NEW functions,
           calls' = [calls EXCEPT ![c] = next],
           DOMAIN next = CallFields, next.mounted = calls[c].mounted,
           next.got = [f \in functions |-> Waiting],
           world' = world, ui'.mounted = ui.mounted, ui'.page = ui.page,
           next.by \in UNION {Handlers(page) : page \in Routes},
           calls[c].mounted => next.by \in Handlers(ui.page),
           AwaitsOK(next.by, functions), KeepsOK(next.by, next.arg),
           \A f \in functions : ArgumentOK(next.arg, f, world)
    PROVE  CallsInv'
<1>1. /\ calls' = [d \in 1 .. MaxCalls |-> calls'[d]]
      /\ \A d \in 1 .. MaxCalls : calls'[d] = IF d = c THEN next ELSE calls[d]
  BY DEF CallsInv
<1>2. CallOK(calls[c], world)
  BY DEF CallsInv
<1>3. CallOK(next, world)
  BY <1>2 DEF CallOK, AnswerOK
<1> QED
  BY <1>1, <1>3 DEF CallsInv

\* The same when it keeps its argument.
LEMMA NextKeeps ==
    ASSUME CallsInv, NEW c \in DOMAIN calls, calls[c] # NoCall,
           NEW by, NEW functions, AwaitNext(c, by, functions),
           world' = world, ui'.mounted = ui.mounted, ui'.page = ui.page,
           by \in UNION {Handlers(page) : page \in Routes},
           calls[c].mounted => by \in Handlers(ui.page),
           AwaitsOK(by, functions), KeepsOK(by, calls[c].arg),
           \A f \in functions : ArgumentOK(calls[c].arg, f, world)
    PROVE  CallsInv'
<1> DEFINE next == [calls[c] EXCEPT !.by = by, !.got = [f \in functions |-> Waiting]]
<1>1. CallOK(calls[c], world)
  BY DEF CallsInv
<1>2. /\ DOMAIN next = CallFields
      /\ next.by = by /\ next.got = [f \in functions |-> Waiting]
      /\ next.arg = calls[c].arg /\ next.mounted = calls[c].mounted
  BY <1>1, NextCall DEF CallOK
<1>3. calls' = [calls EXCEPT ![c] = next]
  BY DEF AwaitNext
<1> HIDE DEF next
<1> QED
  BY <1>2, <1>3, GoesOn

\* The page is left.
LEMMA LeaveKeeps ==
    ASSUME CallsInv, world' = world,
           calls' = Unmounted(calls) \/ \E c \in DOMAIN calls : calls' = Unmounted(Ended(c))
    PROVE  CallsInv'
<1>1. PICK handlers :
          /\ calls' = Unmounted(handlers)
          /\ handlers = [d \in 1 .. MaxCalls |-> handlers[d]]
          /\ \A d \in 1 .. MaxCalls : handlers[d] \in {NoCall, calls[d]}
  <2>1. CASE calls' = Unmounted(calls)
    BY <2>1 DEF CallsInv
  <2>2. ASSUME NEW c \in DOMAIN calls, calls' = Unmounted(Ended(c))
        PROVE  \E handlers :
                   /\ calls' = Unmounted(handlers)
                   /\ handlers = [d \in 1 .. MaxCalls |-> handlers[d]]
                   /\ \A d \in 1 .. MaxCalls : handlers[d] \in {NoCall, calls[d]}
    <3>1. /\ Ended(c) = [d \in 1 .. MaxCalls |-> Ended(c)[d]]
          /\ \A d \in 1 .. MaxCalls : Ended(c)[d] \in {NoCall, calls[d]}
      BY DEF Ended, CallsInv
    <3> QED
      BY <2>2, <3>1
  <2> QED
    BY <2>1, <2>2
<1>2. /\ calls' = [d \in 1 .. MaxCalls |-> calls'[d]]
      /\ \A d \in 1 .. MaxCalls : calls'[d] = [handlers[d] EXCEPT !.mounted = FALSE]
  BY <1>1 DEF Unmounted
<1>3. ASSUME NEW d \in 1 .. MaxCalls, calls'[d] # NoCall
      PROVE  CallOK(calls'[d], world) /\ ~calls'[d].mounted
  <2>1. handlers[d] = calls[d] /\ calls[d] # NoCall
    BY <1>1, <1>2, <1>3 DEF NoCall
  <2>2. CallOK(calls[d], world)
    BY <2>1 DEF CallsInv
  <2>3. calls'[d] = [calls[d] EXCEPT !.mounted = FALSE] /\ DOMAIN calls[d] = CallFields
    BY <1>2, <2>1, <2>2 DEF CallOK
  <2>4. /\ DOMAIN calls'[d] = CallFields
        /\ calls'[d].by = calls[d].by /\ calls'[d].arg = calls[d].arg
        /\ calls'[d].got = calls[d].got /\ ~calls'[d].mounted
        /\ calls'[d].mounted \in BOOLEAN
    BY <2>3, UnmountedCall
  <2>5. CallOK(calls'[d], world)
    BY <2>2, <2>4, SimilarCall DEF CallOK
  <2> QED
    BY <2>4, <2>5
<1> QED
  BY <1>2, <1>3 DEF CallsInv

\* A page that is opened or changed by itself.
LEMMA SameCallsKeep ==
    ASSUME CallsInv, calls' = calls, world' = world, SamePage
    PROVE  CallsInv'
  BY DEF CallsInv, SamePage

\* The server changes, or a call is settled.
LEMMA WorldKeeps ==
    ASSUME CallsInv, world \in WorldType, world' \in WorldType, Grown(world, world'),
           calls' = calls, ui' = ui
    PROVE  CallsInv'
<1>1. ASSUME NEW c \in 1 .. MaxCalls, calls[c] # NoCall
      PROVE  CallOK(calls[c], world')
  <2>1. CallOK(calls[c], world)
    BY <1>1 DEF CallsInv
  <2> QED
    BY <2>1, CallsGrow
<1> QED
  BY <1>1 DEF CallsInv

\* The handler c gets what it awaits from f.
LEMMA AnswerKeeps ==
    ASSUME CallsInv, world \in WorldType, world' \in WorldType, Grown(world, world'), ui' = ui,
           NEW c \in DOMAIN calls, calls[c] # NoCall, NEW f \in DOMAIN calls[c].got, NEW value,
           calls' \in {[calls EXCEPT ![c].got[f] = Ok(value)],
                       [calls EXCEPT ![c].got[f] = Threw]},
           Promised(calls[c].arg, f, value, world')
    PROVE  CallsInv'
<1>1. PICK answer \in {Ok(value), Threw} : calls' = [calls EXCEPT ![c].got[f] = answer]
  OBVIOUS
<1> DEFINE call == [calls[c] EXCEPT !.got[f] = answer]
<1>2. CallOK(calls[c], world')
  BY CallsGrow DEF CallsInv
<1>3. AnswerOK(calls[c].arg, f, answer, world')
  BY DEF AnswerOK, Ok
<1>4. /\ DOMAIN call = CallFields
      /\ call.by = calls[c].by /\ call.arg = calls[c].arg /\ call.token = calls[c].token
      /\ call.mounted = calls[c].mounted
      /\ call.got = [calls[c].got EXCEPT ![f] = answer]
  BY <1>2 DEF CallOK, CallFields
<1>5. /\ DOMAIN call.got = DOMAIN calls[c].got
      /\ \A g \in DOMAIN call.got : call.got[g] = IF g = f THEN answer ELSE calls[c].got[g]
  BY <1>4
<1>7. /\ calls' = [d \in 1 .. MaxCalls |-> calls'[d]]
      /\ \A d \in 1 .. MaxCalls : calls'[d] = IF d = c THEN call ELSE calls[d]
  BY <1>1 DEF CallsInv
<1> HIDE DEF call
<1>8. CallOK(call, world')
  BY <1>2, <1>3, <1>4, <1>5, SimilarCall DEF CallOK
<1>9. ASSUME NEW d \in 1 .. MaxCalls, d # c, calls[d] # NoCall
      PROVE  CallOK(calls[d], world')
  BY <1>9, CallsGrow DEF CallsInv
<1> QED
  BY <1>4, <1>7, <1>8, <1>9 DEF CallsInv

-----------------------------------------------------------------------------
(* The API settles a call. *)

\* What a sequence over a set is made of.
LEMMA Elements ==
    ASSUME NEW S, NEW q \in Seq(S)
    PROVE  /\ Len(q) \in Nat
           /\ DOMAIN q = 1 .. Len(q)
           /\ \A k \in DOMAIN q : q[k] \in S
  OBVIOUS

\* The facts of the server change as they may.
LEMMA WorldUpdates ==
    ASSUME NEW w, WorldOK(w)
    PROVE  /\ \A x \in SUBSET {Holder, Newcomer} : Follows(w, [w EXCEPT !.codes = x])
           /\ \A x \in SUBSET Accounts, y \in SUBSET {Holder, Newcomer} :
                  w.accounts \subseteq x => Follows(w, [w EXCEPT !.accounts = x, !.codes = y])
           /\ \A x \in SUBSET QRTokens :
                  w.spent \subseteq x => Follows(w, [w EXCEPT !.spent = x])
           /\ \A x \in SUBSET Documents :
                  w.documents \subseteq x => Follows(w, [w EXCEPT !.documents = x])
           /\ \A x \in Statuses, y \in BOOLEAN :
                  (w.suspended => y) => Follows(w, [w EXCEPT !.status = x, !.suspended = y])
           /\ \A x \in Resolutions :
                  (x = "RESOLVED_DUPLICATE" => w.suspended) => Follows(w, [w EXCEPT !.flag = x])
<1>1. ASSUME NEW x \in SUBSET {Holder, Newcomer}
      PROVE  Follows(w, [w EXCEPT !.codes = x])
  BY DEF WorldOK, WorldType, Grown, Follows
<1>2. ASSUME NEW x \in SUBSET Accounts, NEW y \in SUBSET {Holder, Newcomer}, w.accounts \subseteq x
      PROVE  Follows(w, [w EXCEPT !.accounts = x, !.codes = y])
  BY <1>2 DEF WorldOK, WorldType, Grown, Follows
<1>3. ASSUME NEW x \in SUBSET QRTokens, w.spent \subseteq x
      PROVE  Follows(w, [w EXCEPT !.spent = x])
  BY <1>3 DEF WorldOK, WorldType, Grown, Follows
<1>4. ASSUME NEW x \in SUBSET Documents, w.documents \subseteq x
      PROVE  Follows(w, [w EXCEPT !.documents = x])
  BY <1>4 DEF WorldOK, WorldType, Grown, Follows
<1>5. ASSUME NEW x \in Statuses, NEW y \in BOOLEAN, w.suspended => y
      PROVE  Follows(w, [w EXCEPT !.status = x, !.suspended = y])
  BY <1>5 DEF WorldOK, WorldType, Grown, Follows
<1>6. ASSUME NEW x \in Resolutions, x = "RESOLVED_DUPLICATE" => w.suspended
      PROVE  Follows(w, [w EXCEPT !.flag = x])
  BY <1>6 DEF WorldOK, WorldType, Grown, Follows
<1> QED
  BY <1>1, <1>2, <1>3, <1>4, <1>5, <1>6

\* A request is created, or its answer stored.
LEMMA ConsentUpdates ==
    ASSUME NEW w, WorldOK(w), NEW r \in Requests, NEW x \in {"PENDING", "APPROVED", "REJECTED"},
           NEW v, v = [w EXCEPT !.consent[r] = x]
    PROVE  Follows(w, v)
<1> DEFINE after == [w.consent EXCEPT ![r] = x]
<1>1. after \in [Requests -> {"NONE", "PENDING", "APPROVED", "REJECTED"}]
  BY DEF WorldOK, WorldType
<1>3. [w EXCEPT !.consent[r] = x] = [w EXCEPT !.consent = after]
  BY DEF WorldOK, WorldType
<1> HIDE DEF after
<1>4. Follows(w, [w EXCEPT !.consent = after])
  BY <1>1 DEF WorldOK, WorldType, Grown, Follows
<1> QED
  BY <1>3, <1>4

\* The answers that are worked on change.
LEMMA AnsweringUpdates ==
    ASSUME NEW w, WorldOK(w), NEW x \in SUBSET Answerings,
           \A a \in x : a.stored => Said(a) \in w.recorded
    PROVE  Follows(w, [w EXCEPT !.answering = x])
  BY DEF WorldOK, WorldType, Grown, Follows

\* The API begins to work on an answer.
LEMMA AnswerTested ==
    ASSUME WorldOK(world), NEW by \in Nat, NEW r \in Requests, NEW approved \in BOOLEAN,
           Tested(by, r, approved)
    PROVE  Follows(world, world')
<1> DEFINE x == Answering(by, r, approved)
           after == world.answering \cup {x}
<1>1. x \in Answerings /\ x.stored = FALSE
  BY DEF Answering, Answerings
<1>2. world.answering \subseteq Answerings
      /\ \A a \in world.answering : a.stored => Said(a) \in world.recorded
  BY DEF WorldOK, WorldType
<1> HIDE DEF x
<1>3. after \in SUBSET Answerings /\ \A a \in after : a.stored => Said(a) \in world.recorded
  BY <1>1, <1>2
<1>4. world' = [world EXCEPT !.answering = after]
  BY DEF Tested, x
<1> HIDE DEF after
<1> QED
  BY <1>3, <1>4, AnsweringUpdates

\* It stores the answer, which then is on record.
LEMMA AnswerRecorded ==
    ASSUME WorldOK(world), NEW x \in world.answering, ~x.stored, world' = Responded(x)
    PROVE  Follows(world, world')
<1> DEFINE w == world
           consent == [w.consent EXCEPT ![x.request] = IF x.approved THEN "APPROVED" ELSE "REJECTED"]
           done == [x EXCEPT !.stored = TRUE]
           answering == (w.answering \ {x}) \cup {done}
           recorded == w.recorded \cup {Said(x)}
<1>1. x \in Answerings /\ w.answering \subseteq Answerings /\ w.recorded \subseteq Answers
      /\ \A a \in w.answering : a.stored => Said(a) \in w.recorded
  BY DEF WorldOK, WorldType
<1>2. consent \in [Requests -> {"NONE", "PENDING", "APPROVED", "REJECTED"}]
  BY <1>1 DEF WorldOK, WorldType, Answerings
<1>3. Said(x) \in Answers
  BY <1>1 DEF Said, Answers, Answerings
<1>4. done \in Answerings /\ done.request = x.request /\ done.approved = x.approved
  BY <1>1 DEF Answerings
<1>5. Said(done) = Said(x)
  BY <1>4 DEF Said
<1> HIDE DEF done
<1>6. answering \in SUBSET Answerings /\ recorded \in SUBSET Answers /\ w.recorded \subseteq recorded
      /\ \A a \in answering : a.stored => Said(a) \in recorded
  BY <1>1, <1>3, <1>4, <1>5
<1>7. world' = [w EXCEPT !.consent = consent, !.recorded = recorded, !.answering = answering]
  BY DEF Responded, Said, done, WorldOK, WorldType
<1> HIDE DEF consent, answering, recorded
<1>8. Follows(w, [w EXCEPT !.consent = consent, !.recorded = recorded, !.answering = answering])
  BY <1>2, <1>6 DEF WorldOK, WorldType, Grown, Follows
<1> QED
  BY <1>7, <1>8

\* It has published the answer.
LEMMA AnswerDone ==
    ASSUME WorldOK(world), NEW x \in world.answering, AnswerPublished(x)
    PROVE  Follows(world, world') /\ Said(x) \in world.recorded
<1>1. world.answering \subseteq Answerings
      /\ \A a \in world.answering : a.stored => Said(a) \in world.recorded
  BY DEF WorldOK, WorldType
<1> DEFINE after == world.answering \ {x}
<1>2. after \in SUBSET Answerings /\ \A a \in after : a.stored => Said(a) \in world.recorded
  BY <1>1
<1>3. x.stored /\ world' = [world EXCEPT !.answering = after]
  BY DEF AnswerPublished
<1> HIDE DEF after
<1> QED
  BY <1>1, <1>2, <1>3, AnsweringUpdates

\* An amendment is added.
LEMMA AmendmentAdded ==
    ASSUME NEW w, WorldOK(w), NEW changes \in Changes, NEW documents \in SUBSET Documents
    PROVE  LET v == [w EXCEPT !.amendments = Append(@, PendingAmendment(changes, documents))] IN
           /\ Follows(w, v)
           /\ Len(w.amendments) + 1 \in DOMAIN v.amendments
<1> DEFINE after == Append(w.amendments, PendingAmendment(changes, documents))
<1>1. PendingAmendment(changes, documents) \in
          [changes : Changes, documents : SUBSET Documents,
           status : {"PENDING_REVIEW", "APPROVED", "REJECTED"}]
  BY DEF PendingAmendment
<1>2. w.amendments \in Amendments
  BY DEF WorldOK, WorldType
<1>3. /\ after \in Amendments
      /\ DOMAIN after = 1 .. Len(w.amendments) + 1
      /\ DOMAIN w.amendments = 1 .. Len(w.amendments)
      /\ \A i \in DOMAIN w.amendments : after[i] = w.amendments[i]
  BY <1>1, <1>2 DEF Amendments
<1>4. Len(w.amendments) \in Nat
  BY <1>2 DEF Amendments
<1> HIDE DEF after
<1>5. Follows(w, [w EXCEPT !.amendments = after]) /\ [w EXCEPT !.amendments = after].amendments = after
  BY <1>3, <1>4 DEF WorldOK, WorldType, Grown, Follows
<1> QED
  BY <1>3, <1>4, <1>5 DEF after

\* An amendment is reviewed, and the profile follows an approval.
LEMMA AmendmentReviewed ==
    ASSUME WorldOK(world), NEW i \in DOMAIN world.amendments, NEW approved \in BOOLEAN
    PROVE  LET v == Reviewed(i, approved) IN
           /\ Follows(world, v)
           /\ approved => Approved(v)
<1> DEFINE w == world
           status == IF approved THEN "APPROVED" ELSE "REJECTED"
           after == [w.amendments EXCEPT ![i].status = status]
           profile == IF approved THEN Changed(w.profile, world.amendments[i].changes) ELSE w.profile
<1>1. w.amendments \in Amendments /\ w.profile \in [Fields -> Values]
  BY DEF WorldOK, WorldType
<1>2. /\ i \in 1 .. Len(w.amendments)
      /\ DOMAIN w.amendments = 1 .. Len(w.amendments)
      /\ w.amendments[i] \in [changes : Changes, documents : SUBSET Documents,
                               status : {"PENDING_REVIEW", "APPROVED", "REJECTED"}]
  <2> HIDE DEF after, status, profile
  <2>1. \A S : \A q \in Seq(S) : \A k \in DOMAIN q : k \in 1 .. Len(q) /\ DOMAIN q = 1 .. Len(q) /\ q[k] \in S
    OBVIOUS
  <2> QED
    BY <1>1, <2>1 DEF Amendments
<1>3. status \in {"APPROVED", "REJECTED"}
  OBVIOUS
<1>4. /\ after \in Amendments /\ DOMAIN after = DOMAIN w.amendments
      /\ after[i].status = status
      /\ \A j \in DOMAIN w.amendments : j # i => after[j] = w.amendments[j]
  <2> DEFINE element == [w.amendments[i] EXCEPT !.status = status]
  <2>1. element \in
            [changes : Changes, documents : SUBSET Documents,
             status : {"PENDING_REVIEW", "APPROVED", "REJECTED"}]
        /\ element.status = status
    <3> HIDE DEF status
    <3> QED
      BY <1>2, <1>3
  <2>2. after = [w.amendments EXCEPT ![i] = element]
    OBVIOUS
  <2> HIDE DEF after, element, status
  <2> QED
    BY <1>1, <1>2, <2>1, <2>2 DEF Amendments
<1>5. profile \in [Fields -> Values]
  <2>1. PICK fields \in SUBSET Fields : w.amendments[i].changes \in [fields -> {"given", "MALE", "other"}]
    BY <1>2 DEF Changes
  <2>4. Changed(w.profile, world.amendments[i].changes) \in [Fields -> Values]
    BY <1>1, <2>1 DEF Changed, Values
  <2> QED
    BY <1>1, <2>4
<1> DEFINE kept == IF approved THEN w.approved \cup {i} ELSE w.approved
<1>6. Reviewed(i, approved) = [w EXCEPT !.amendments = after, !.approved = kept, !.profile = profile]
  BY DEF Reviewed, WorldOK, WorldType
<1>8. kept \in SUBSET Nat /\ w.approved \subseteq kept /\ (approved => kept # {})
  <2>1. i \in Nat
    <3> HIDE DEF w
    <3>1. Len(w.amendments) \in Nat
      BY <1>1 DEF Amendments
    <3> QED
      BY <1>2, <3>1
  <2>2. w.approved \in SUBSET Nat
    BY DEF WorldOK, WorldType
  <2> QED
    BY <2>1, <2>2
<1> HIDE DEF after, profile, status, kept
<1>0. WorldOK(w)
  OBVIOUS
<1> HIDE DEF w
<1> DEFINE v == [w EXCEPT !.amendments = after, !.approved = kept, !.profile = profile]
<1>7. v \in WorldType
  BY <1>0, <1>4, <1>5, <1>8 DEF WorldOK, WorldType
<1>9. Follows(w, v) /\ v.approved = kept
  <2>1. /\ v.amendments = after /\ v.approved = kept
        /\ v.accounts = w.accounts /\ v.spent = w.spent /\ v.documents = w.documents
        /\ v.suspended = w.suspended /\ v.recorded = w.recorded
        /\ v.answering = w.answering /\ v.flag = w.flag
    BY <1>0 DEF WorldOK, WorldType
  <2> HIDE DEF v
  <2> QED
    BY <1>0, <1>4, <1>7, <1>8, <2>1 DEF WorldOK, Follows, Grown
<1> QED
  BY <1>6, <1>8, <1>9 DEF Approved, w

\* What a settled call leaves as it was.
SameHandlers ==
    \A c \in 1 .. MaxCalls :
        /\ calls'[c].by = calls[c].by
        /\ calls'[c].mounted = calls[c].mounted
        /\ calls[c] # NoCall => calls'[c].arg = calls[c].arg

\* An answer is given, or lost.
LEMMA AnswerSettles ==
    ASSUME CallsInv, WorldOK(world), Follows(world, world'), ui' = ui,
           NEW c \in DOMAIN calls, calls[c] # NoCall, NEW f, NEW value,
           f \in DOMAIN calls[c].got,
           calls' \in {[calls EXCEPT ![c].got[f] = Ok(value)],
                       [calls EXCEPT ![c].got[f] = Threw]},
           Promised(calls[c].arg, f, value, world')
    PROVE  CallsInv' /\ SameHandlers
<1>1. CallsInv'
  BY AnswerKeeps DEF Follows, WorldOK
<1>2. SameHandlers
  <2>1. CallOK(calls[c], world) /\ c \in 1 .. MaxCalls
    BY DEF CallsInv
  <2>2. ASSUME NEW answer, calls' = [calls EXCEPT ![c].got[f] = answer], NEW d \in 1 .. MaxCalls
        PROVE  /\ calls'[d].by = calls[d].by
               /\ calls'[d].mounted = calls[d].mounted
               /\ calls[d] # NoCall => calls'[d].arg = calls[d].arg
    BY <2>1, <2>2 DEF CallsInv, CallOK, CallFields
  <2> QED
    BY <2>2 DEF SameHandlers
<1> QED
  BY <1>1, <1>2

\* A read.
LEMMA ReadSettles ==
    ASSUME CallsInv, WorldOK(world), ui' = ui,
           NEW c \in DOMAIN calls, calls[c] # NoCall, NEW f, NEW value, Read(c, f, value),
           Promised(calls[c].arg, f, value, world)
    PROVE  Follows(world, world') /\ CallsInv' /\ SameHandlers
<1>1. Follows(world, world')
  BY GrownReflexive DEF Read, Follows, WorldOK
<1>2. Promised(calls[c].arg, f, value, world')
  BY DEF Read
<1>3. f \in DOMAIN calls[c].got
  BY DEF Read, Handles, Asked
<1>4. calls' \in {[calls EXCEPT ![c].got[f] = Ok(value)], [calls EXCEPT ![c].got[f] = Threw]}
  BY DEF Read, Answer
<1> QED
  BY <1>1, <1>2, <1>3, <1>4, AnswerSettles

\* A write.
LEMMA WriteSettles ==
    ASSUME CallsInv, WorldOK(world), ui' = ui,
           NEW c \in DOMAIN calls, calls[c] # NoCall, NEW f, NEW after, NEW value,
           Write(c, f, after, value), Follows(world, after),
           Promised(calls[c].arg, f, value, after)
    PROVE  Follows(world, world') /\ CallsInv' /\ SameHandlers
<1>1. world' = after
  BY DEF Write
<1>2. Follows(world, world') /\ Promised(calls[c].arg, f, value, world')
  BY <1>1
<1>3. f \in DOMAIN calls[c].got
  BY DEF Write, Handles, Asked
<1>4. calls' \in {[calls EXCEPT ![c].got[f] = Ok(value)], [calls EXCEPT ![c].got[f] = Threw]}
  BY DEF Write, Answer
<1> QED
  BY <1>2, <1>3, <1>4, AnswerSettles

\* The API refuses the request.
LEMMA RefusalSettles ==
    ASSUME CallsInv, WorldOK(world), ui' = ui,
           NEW c \in DOMAIN calls, calls[c] # NoCall, Refuse(c)
    PROVE  Follows(world, world') /\ CallsInv' /\ SameHandlers
<1>1. PICK f \in DOMAIN calls[c].got : calls' = [calls EXCEPT ![c].got[f] = Threw]
  BY DEF Refuse
<1>2. Follows(world, world')
  <2> DEFINE released(x) == [x EXCEPT !.by = IF @ = c THEN 0 ELSE @]
             after == {released(x) : x \in world.answering}
  <2>1. world.answering \subseteq Answerings
        /\ \A a \in world.answering : a.stored => Said(a) \in world.recorded
    BY DEF WorldOK, WorldType
  <2>2. ASSUME NEW x \in world.answering
        PROVE  /\ released(x) \in Answerings
               /\ released(x).stored = x.stored /\ Said(released(x)) = Said(x)
    BY <2>1 DEF Answerings, Said
  <2>3. world' = [world EXCEPT !.answering = after]
    BY DEF Refuse
  <2> HIDE DEF released
  <2>4. after \in SUBSET Answerings /\ \A a \in after : a.stored => Said(a) \in world.recorded
    BY <2>1, <2>2
  <2> HIDE DEF after
  <2> QED
    BY <2>3, <2>4, AnsweringUpdates
<1> DEFINE call == [calls[c] EXCEPT !.got[f] = Threw]
<1>3. CallOK(calls[c], world) /\ c \in 1 .. MaxCalls
  BY DEF CallsInv
<1>4. /\ DOMAIN call = CallFields
      /\ call.by = calls[c].by /\ call.arg = calls[c].arg /\ call.mounted = calls[c].mounted
      /\ call.got = [calls[c].got EXCEPT ![f] = Threw]
  BY <1>3 DEF CallOK, CallFields
<1>5. /\ calls' = [d \in 1 .. MaxCalls |-> calls'[d]]
      /\ \A d \in 1 .. MaxCalls : calls'[d] = IF d = c THEN call ELSE calls[d]
  BY <1>1 DEF CallsInv
<1> HIDE DEF call
<1>6. CallOK(call, world)
  BY <1>3, <1>4, SimilarCall DEF CallOK, AnswerOK
<1>9. CallOK(call, world') /\ \A d \in 1 .. MaxCalls : calls[d] # NoCall => CallOK(calls[d], world')
  BY <1>2, <1>6, CallsGrow DEF CallsInv, Follows, WorldOK
<1>7. CallsInv'
  BY <1>4, <1>5, <1>9 DEF CallsInv
<1>8. SameHandlers
  BY <1>4, <1>5 DEF SameHandlers
<1> QED
  BY <1>2, <1>7, <1>8

\* The API settles a call: the world goes on as it may, the handlers go on as
\* they were, and what is answered is true.
LEMMA SettleKeeps ==
    ASSUME CallsInv, WorldOK(world), ui' = ui, NEW c \in DOMAIN calls, Settles(c)
    PROVE  Follows(world, world') /\ CallsInv' /\ SameHandlers
<1> USE DEF Settles
<1> DEFINE arg == calls[c].arg
<1>1. calls[c] # NoCall
  OBVIOUS
<1>2. ASSUME NEW f, f \in DOMAIN calls[c].got
      PROVE  ArgumentOK(arg, f, world)
  BY <1>1, <1>2 DEF CallsInv, CallOK
<1> HIDE DEF Settles
<1>11. CASE LoginUser(c)
  <2> DEFINE value == calls[c].arg
  <2>1. Read(c, "loginUser", value)
    BY <1>11 DEF LoginUser
  <2>2. /\ ArgumentOK(arg, "loginUser", world)
        /\ Accepts(c, "loginUser")
    BY <1>2, <2>1 DEF Read, Handles, Asked
  <2>3. Promised(arg, "loginUser", value, world)
    BY <2>2 DEF Promised, ArgumentOK, Accepts, WorldOK, WorldType
  <2> QED
    BY <1>1, <2>1, <2>3, ReadSettles
<1>12. CASE GetMyIdentity(c)
  <2>0. PICK profile \in {IF calls[c].token = Holder THEN world.profile
                        ELSE [field \in Fields |-> "given"], NullProfile} :
            Read(c, "getMyIdentity", [account |-> calls[c].token, profile |-> profile])
    BY <1>12 DEF GetMyIdentity
  <2> DEFINE value == [account |-> calls[c].token, profile |-> profile]
  <2>1. Read(c, "getMyIdentity", value)
    BY <2>0
  <2>2. /\ ArgumentOK(arg, "getMyIdentity", world)
        /\ Accepts(c, "getMyIdentity")
    BY <1>2, <2>1 DEF Read, Handles, Asked
  <2>3. Promised(arg, "getMyIdentity", value, world)
    <3>1. /\ calls[c].token \in Accounts
          /\ world.profile \in [Fields -> Values]
          /\ [field \in Fields |-> "given"] \in [Fields -> Values]
      BY <2>2 DEF Accepts, WorldOK, WorldType, Accounts, Values
    <3>2. value \in [account : Accounts, profile : Profiles]
      BY <3>1 DEF Profiles
    <3> HIDE DEF value
    <3> QED
      BY <3>2 DEF Promised
  <2> QED
    BY <1>1, <2>1, <2>3, ReadSettles
<1>13. CASE GenerateQRToken(c)
  <2> DEFINE value == calls[c].arg
  <2>1. Read(c, "generateQRToken", value)
    BY <1>13 DEF GenerateQRToken
  <2>2. /\ ArgumentOK(arg, "generateQRToken", world)
        /\ Accepts(c, "generateQRToken")
    BY <1>2, <2>1 DEF Read, Handles, Asked
  <2>3. Promised(arg, "generateQRToken", value, world)
    BY <2>2 DEF Promised, ArgumentOK, Accepts, WorldOK, WorldType
  <2> QED
    BY <1>1, <2>1, <2>3, ReadSettles
<1>14. CASE GetPendingVerificationRequests(c)
  <2> DEFINE value == IF calls[c].token = Holder THEN Requests \ Unused ELSE {}
  <2>1. Read(c, "getPendingVerificationRequests", value)
    BY <1>14 DEF GetPendingVerificationRequests
  <2>2. /\ ArgumentOK(arg, "getPendingVerificationRequests", world)
        /\ Accepts(c, "getPendingVerificationRequests")
    BY <1>2, <2>1 DEF Read, Handles, Asked
  <2>3. Promised(arg, "getPendingVerificationRequests", value, world)
    BY <2>2 DEF Promised, ArgumentOK, Accepts, WorldOK, WorldType
  <2> QED
    BY <1>1, <2>1, <2>3, ReadSettles
<1>15. CASE GetDIDDocument(c)
  <2> DEFINE value == None
  <2>1. Read(c, "getDIDDocument", value)
    BY <1>15 DEF GetDIDDocument
  <2>2. /\ ArgumentOK(arg, "getDIDDocument", world)
        /\ Accepts(c, "getDIDDocument")
    BY <1>2, <2>1 DEF Read, Handles, Asked
  <2>3. Promised(arg, "getDIDDocument", value, world)
    BY <2>2 DEF Promised, ArgumentOK, Accepts, WorldOK, WorldType
  <2> QED
    BY <1>1, <2>1, <2>3, ReadSettles
<1>16. CASE GetCredentialW3C(c)
  <2> DEFINE value == None
  <2>1. Read(c, "getCredentialW3C", value)
    BY <1>16 DEF GetCredentialW3C
  <2>2. /\ ArgumentOK(arg, "getCredentialW3C", world)
        /\ Accepts(c, "getCredentialW3C")
    BY <1>2, <2>1 DEF Read, Handles, Asked
  <2>3. Promised(arg, "getCredentialW3C", value, world)
    BY <2>2 DEF Promised, ArgumentOK, Accepts, WorldOK, WorldType
  <2> QED
    BY <1>1, <2>1, <2>3, ReadSettles
<1>17. CASE AdminListIdentities(c)
  <2> DEFINE value == world.status
  <2>1. Read(c, "adminListIdentities", value)
    BY <1>17 DEF AdminListIdentities
  <2>2. /\ ArgumentOK(arg, "adminListIdentities", world)
        /\ Accepts(c, "adminListIdentities")
    BY <1>2, <2>1 DEF Read, Handles, Asked
  <2>3. Promised(arg, "adminListIdentities", value, world)
    BY <2>2 DEF Promised, ArgumentOK, Accepts, WorldOK, WorldType
  <2> QED
    BY <1>1, <2>1, <2>3, ReadSettles
<1>18. CASE AdminListDuplicates(c)
  <2> DEFINE value == (world.flag = "PENDING_REVIEW")
  <2>1. Read(c, "adminListDuplicates", value)
    BY <1>18 DEF AdminListDuplicates
  <2>2. /\ ArgumentOK(arg, "adminListDuplicates", world)
        /\ Accepts(c, "adminListDuplicates")
    BY <1>2, <2>1 DEF Read, Handles, Asked
  <2>3. Promised(arg, "adminListDuplicates", value, world)
    BY <2>2 DEF Promised, ArgumentOK, Accepts, WorldOK, WorldType
  <2> QED
    BY <1>1, <2>1, <2>3, ReadSettles
<1>19. CASE AdminListAudit(c)
  <2> DEFINE value == None
  <2>1. Read(c, "adminListAudit", value)
    BY <1>19 DEF AdminListAudit
  <2>2. /\ ArgumentOK(arg, "adminListAudit", world)
        /\ Accepts(c, "adminListAudit")
    BY <1>2, <2>1 DEF Read, Handles, Asked
  <2>3. Promised(arg, "adminListAudit", value, world)
    BY <2>2 DEF Promised, ArgumentOK, Accepts, WorldOK, WorldType
  <2> QED
    BY <1>1, <2>1, <2>3, ReadSettles
<1>20. CASE AdminListAmendments(c)
  <2> DEFINE value == [i \in DOMAIN world.amendments |-> world.amendments[i].status]
  <2>1. Read(c, "adminListAmendments", value)
    BY <1>20 DEF AdminListAmendments
  <2>2. /\ ArgumentOK(arg, "adminListAmendments", world)
        /\ Accepts(c, "adminListAmendments")
    BY <1>2, <2>1 DEF Read, Handles, Asked
  <2>3. Promised(arg, "adminListAmendments", value, world)
    <3>1. world.amendments \in Amendments
      BY DEF WorldOK, WorldType
    <3>2. /\ Len(world.amendments) \in Nat
          /\ DOMAIN world.amendments = 1 .. Len(world.amendments)
          /\ \A i \in DOMAIN world.amendments :
                 world.amendments[i] \in [changes : Changes, documents : SUBSET Documents,
                                          status : ReviewStatuses]
      BY <3>1, Elements DEF Amendments, ReviewStatuses
    <3>3. value \in [1 .. Len(world.amendments) -> ReviewStatuses]
      BY <3>2
    <3>4. value \in Seq(ReviewStatuses)
      BY <3>2, <3>3, SeqDef
    <3> HIDE DEF value
    <3> QED
      BY <3>4 DEF Promised
  <2> QED
    BY <1>1, <2>1, <2>3, ReadSettles
<1>21. CASE ListMyDocuments(c)
  <2> DEFINE value == IF calls[c].token = Holder THEN world.documents ELSE {}
  <2>1. Read(c, "listMyDocuments", value)
    BY <1>21 DEF ListMyDocuments
  <2>2. /\ ArgumentOK(arg, "listMyDocuments", world)
        /\ Accepts(c, "listMyDocuments")
    BY <1>2, <2>1 DEF Read, Handles, Asked
  <2>3. Promised(arg, "listMyDocuments", value, world)
    BY <2>2 DEF Promised, ArgumentOK, Accepts, WorldOK, WorldType
  <2> QED
    BY <1>1, <2>1, <2>3, ReadSettles
<1>22. CASE ListMyAmendments(c)
  <2> DEFINE value == IF calls[c].token = Holder THEN DOMAIN world.amendments ELSE {}
  <2>1. Read(c, "listMyAmendments", value)
    BY <1>22 DEF ListMyAmendments
  <2>2. /\ ArgumentOK(arg, "listMyAmendments", world)
        /\ Accepts(c, "listMyAmendments")
    BY <1>2, <2>1 DEF Read, Handles, Asked
  <2>3. Promised(arg, "listMyAmendments", value, world)
    <3>1. world.amendments \in Amendments
      BY DEF WorldOK, WorldType
    <3>2. DOMAIN world.amendments \subseteq Nat
      BY <3>1 DEF Amendments
    <3>3. value \subseteq Nat
      BY <3>2
    <3> HIDE DEF value
    <3> QED
      BY <3>3 DEF Promised
  <2> QED
    BY <1>1, <2>1, <2>3, ReadSettles
<1>23. CASE RequestOTP(c)
  <2> DEFINE after == [world EXCEPT !.codes = @ \cup {arg.email}]
             value == None
  <2>1. Write(c, "requestOTP", after, value)
    BY <1>23 DEF RequestOTP
  <2>2. /\ ArgumentOK(arg, "requestOTP", world)
        /\ Accepts(c, "requestOTP")
    BY <1>2, <2>1 DEF Write, Handles, Asked
  <2>3. Follows(world, after)
    BY <2>2, WorldUpdates DEF ArgumentOK, Accepts, WorldOK, WorldType
  <2>4. Promised(arg, "requestOTP", value, after)
    BY <2>2, <2>3 DEF Promised, ArgumentOK, Accepts, Follows, WorldOK, WorldType
  <2> HIDE DEF after, value
  <2> QED
    BY <1>1, <2>1, <2>3, <2>4, WriteSettles
<1>24. CASE RegisterUser(c)
  <2> DEFINE after == [world EXCEPT !.accounts = @ \cup {arg.email}, !.codes = @ \ {arg.email}]
             value == arg.email
  <2>1. Write(c, "registerUser", after, value)
    BY <1>24 DEF RegisterUser
  <2>2. /\ ArgumentOK(arg, "registerUser", world)
        /\ Accepts(c, "registerUser")
    BY <1>2, <2>1 DEF Write, Handles, Asked
  <2>3. Follows(world, after)
    <3>1. /\ world.accounts \cup {arg.email} \in SUBSET Accounts
          /\ world.codes \ {arg.email} \in SUBSET {Holder, Newcomer}
          /\ world.accounts \subseteq world.accounts \cup {arg.email}
      BY <2>2 DEF Accepts, WorldOK, WorldType, Accounts
    <3> QED
      BY <3>1, WorldUpdates
  <2>4. Promised(arg, "registerUser", value, after)
    BY <2>2, <2>3 DEF Promised, ArgumentOK, Accepts, Follows, WorldOK, WorldType
  <2> HIDE DEF after, value
  <2> QED
    BY <1>1, <2>1, <2>3, <2>4, WriteSettles
<1>25. CASE VerifyQRToken(c)
  <2>0. PICK spent \in {world.spent, world.spent \cup {arg}} :
            Write(c, "verifyQRToken", [world EXCEPT !.spent = spent], arg)
    BY <1>25 DEF VerifyQRToken
  <2> DEFINE after == [world EXCEPT !.spent = spent]
             value == arg
  <2>1. Write(c, "verifyQRToken", after, value)
    BY <2>0
  <2>2. /\ ArgumentOK(arg, "verifyQRToken", world)
        /\ Accepts(c, "verifyQRToken")
    BY <1>2, <2>1 DEF Write, Handles, Asked
  <2>3. Follows(world, after)
    BY <2>2, WorldUpdates DEF ArgumentOK, Accepts, WorldOK, WorldType
  <2>4. Promised(arg, "verifyQRToken", value, after)
    BY <2>2, <2>3 DEF Promised, ArgumentOK, Accepts, Follows, WorldOK, WorldType
  <2> HIDE DEF after, value
  <2> QED
    BY <1>1, <2>1, <2>3, <2>4, WriteSettles
<1>26. CASE RespondVerificationRequest(c)
  <2>1. ArgumentOK(arg, "respondVerificationRequest", world) /\ c \in Nat
    BY <1>2, <1>26 DEF RespondVerificationRequest, Handles, Asked, CallsInv
  <2>2. Tested(c, arg.request, arg.approved) /\ arg.request \in Requests /\ arg.approved \in BOOLEAN
    BY <1>26, <2>1 DEF RespondVerificationRequest, ArgumentOK, Answers
  <2>3. Follows(world, world')
    BY <2>1, <2>2, AnswerTested
  <2>4. calls' = calls
    BY <1>26 DEF RespondVerificationRequest
  <2>5. CallsInv'
    BY <2>3, <2>4, WorldKeeps DEF Follows, WorldOK
  <2> QED
    BY <2>3, <2>4, <2>5 DEF SameHandlers
<1>27. CASE CreateVerificationRequest(c)
  <2> DEFINE after == Created(NextRequest)
             value == NextRequest
  <2>1. Write(c, "createVerificationRequest", after, value)
    BY <1>27 DEF CreateVerificationRequest
  <2>2. /\ ArgumentOK(arg, "createVerificationRequest", world)
        /\ Accepts(c, "createVerificationRequest")
    BY <1>2, <2>1 DEF Write, Handles, Asked
  <2>5. NextRequest \in Requests
    BY <2>2 DEF Accepts, NextRequest, Unused
  <2>3. Follows(world, after)
    BY <2>5, ConsentUpdates DEF Created
  <2>4. Promised(arg, "createVerificationRequest", value, after)
    BY <2>5 DEF Promised
  <2> HIDE DEF after, value
  <2> QED
    BY <1>1, <2>1, <2>3, <2>4, WriteSettles
<1>28. CASE AdminUpdateStatus(c)
  <2> DEFINE after == [world EXCEPT !.status = arg.status,
                               !.suspended = @ \/ arg.status = "SUSPENDED"]
             value == None
  <2>1. Write(c, "adminUpdateStatus", after, value)
    BY <1>28 DEF AdminUpdateStatus
  <2>2. /\ ArgumentOK(arg, "adminUpdateStatus", world)
        /\ Accepts(c, "adminUpdateStatus")
    BY <1>2, <2>1 DEF Write, Handles, Asked
  <2>3. Follows(world, after)
    BY <2>2, WorldUpdates DEF ArgumentOK, Accepts, WorldOK, WorldType
  <2>4. Promised(arg, "adminUpdateStatus", value, after)
    BY <2>2, <2>3 DEF Promised, ArgumentOK, Accepts, Follows, WorldOK, WorldType
  <2> HIDE DEF after, value
  <2> QED
    BY <1>1, <2>1, <2>3, <2>4, WriteSettles
<1>29. CASE AdminResolveDuplicate(c)
  <2> DEFINE after == [world EXCEPT !.flag = arg.resolution]
             value == None
  <2>1. Write(c, "adminResolveDuplicate", after, value)
    BY <1>29 DEF AdminResolveDuplicate
  <2>2. /\ ArgumentOK(arg, "adminResolveDuplicate", world)
        /\ Accepts(c, "adminResolveDuplicate")
    BY <1>2, <2>1 DEF Write, Handles, Asked
  <2>3. Follows(world, after)
    BY <2>2, WorldUpdates DEF ArgumentOK, Accepts, WorldOK, WorldType
  <2>4. Promised(arg, "adminResolveDuplicate", value, after)
    BY <2>2, <2>3 DEF Promised, ArgumentOK, Accepts, Follows, WorldOK, WorldType
  <2> HIDE DEF after, value
  <2> QED
    BY <1>1, <2>1, <2>3, <2>4, WriteSettles
<1>30. CASE UploadIdentityDocument(c)
  <2> DEFINE after == [world EXCEPT !.documents = @ \cup {arg}]
             value == arg
  <2>1. Write(c, "uploadIdentityDocument", after, value)
    BY <1>30 DEF UploadIdentityDocument
  <2>2. /\ ArgumentOK(arg, "uploadIdentityDocument", world)
        /\ Accepts(c, "uploadIdentityDocument")
    BY <1>2, <2>1 DEF Write, Handles, Asked
  <2>3. Follows(world, after)
    BY <2>2, WorldUpdates DEF ArgumentOK, Accepts, WorldOK, WorldType
  <2>4. Promised(arg, "uploadIdentityDocument", value, after)
    BY <2>2, <2>3 DEF Promised, ArgumentOK, Accepts, Follows, WorldOK, WorldType
  <2> HIDE DEF after, value
  <2> QED
    BY <1>1, <2>1, <2>3, <2>4, WriteSettles
<1>31. CASE CreateAmendmentRequest(c)
  <2> DEFINE after == [world EXCEPT !.amendments =
                       Append(@, PendingAmendment(arg.changes, arg.documents))]
             value == Len(world.amendments) + 1
  <2>1. Write(c, "createAmendmentRequest", after, value)
    BY <1>31 DEF CreateAmendmentRequest
  <2>2. /\ ArgumentOK(arg, "createAmendmentRequest", world)
        /\ Accepts(c, "createAmendmentRequest")
    BY <1>2, <2>1 DEF Write, Handles, Asked
  <2>5. Follows(world, after) /\ value \in DOMAIN after.amendments
    <3>1. arg.changes \in Changes /\ arg.documents \in SUBSET Documents
      BY <2>2 DEF ArgumentOK
    <3> QED
      BY <3>1, AmendmentAdded
  <2>3. Follows(world, after)
    BY <2>5
  <2>4. Promised(arg, "createAmendmentRequest", value, after)
    BY <2>5 DEF Promised
  <2> HIDE DEF after, value
  <2> QED
    BY <1>1, <2>1, <2>3, <2>4, WriteSettles
<1>32. CASE Refuse(c)
  BY <1>1, <1>32, RefusalSettles
<1> QED
  BY <1>11, <1>12, <1>13, <1>14, <1>15, <1>16, <1>17, <1>18, <1>19, <1>20, <1>21, <1>22, <1>23, <1>24, <1>25, <1>26, <1>27, <1>28, <1>29, <1>30, <1>31, <1>32 DEF Settles

\* The API goes on with an answer to a request, and settles the call that gave
\* it.
LEMMA AnsweredKeeps ==
    ASSUME CallsInv, WorldOK(world), Answered
    PROVE  Follows(world, world') /\ CallsInv' /\ SameHandlers
<1>0. ui' = ui
  BY DEF Answered, web
<1>1. ASSUME Follows(world, world'), calls' = calls
      PROVE  CallsInv' /\ SameHandlers
  BY <1>0, <1>1, WorldKeeps DEF Follows, WorldOK, SameHandlers
<1>2. CASE AnswerStored /\ UNCHANGED calls
  BY <1>1, <1>2, AnswerRecorded DEF AnswerStored
<1>3. CASE AnswersNobody
  BY <1>1, <1>3, AnswerDone DEF AnswersNobody, AnsweringFor
<1>4. CASE \E c \in DOMAIN calls : calls[c] # NoCall /\ AnswersCall(c)
  <2>1. PICK c \in DOMAIN calls : calls[c] # NoCall /\ AnswersCall(c)
    BY <1>4
  <2> DEFINE f == "respondVerificationRequest"
             arg == calls[c].arg
             x == [by |-> c, request |-> arg.request, approved |-> arg.approved, stored |-> TRUE]
  <2>2. f \in DOMAIN calls[c].got /\ x \in world.answering /\ AnswerPublished(x)
        /\ calls' = [calls EXCEPT ![c].got[f] = Ok(None)]
    BY <2>1 DEF AnswersCall, Asked
  <2>3. arg \in Answers
    BY <2>1, <2>2 DEF CallsInv, CallOK, ArgumentOK
  <2>4. Said(x) = arg
    BY <2>3 DEF Said, Answers
  <2> HIDE DEF x
  <2>5. Follows(world, world') /\ arg \in world.recorded
    BY <2>2, <2>4, AnswerDone
  <2>6. Promised(arg, f, None, world')
    BY <2>5 DEF Promised, Follows, Grown
  <2> QED
    BY <1>0, <2>1, <2>2, <2>5, <2>6, AnswerSettles
<1> QED
  BY <1>2, <1>3, <1>4 DEF Answered

-----------------------------------------------------------------------------
(* The waits that the pages show, each with a call behind it. *)

\* The page state u shows the wait s.
Turns(u, s) == s \in DOMAIN u /\ u[s]

\* A call behind the wait s is under way.
Behind(s) == \E c \in 1 .. MaxCalls : calls[c].mounted /\ calls[c].by \in Spinners[s]

\* Each wait shown has a call behind it.
SpinInv == \A s \in DOMAIN Spinners : Turns(ui, s) => Behind(s)

\* The names of the waits.
LEMMA SpinnerNames ==
    /\ DOMAIN Spinners = {"loading", "generating", "submitting", "loadingVC", "loadingDID"}
    /\ Spinners["loading"] = {"login", "otp", "register", "verify", "recruiter", "create",
                              "load identity", "load requests", "load history", "load qr",
                              "lists", "admin login"}
    /\ Spinners["generating"] = {"qr"} /\ Spinners["submitting"] = {"amend"}
    /\ Spinners["loadingVC"] = {"vc"} /\ Spinners["loadingDID"] = {"did"}
  BY DEF Spinners, Submissions


\* The page shows no wait that it did not show, and no call ends.
LEMMA SpinStays ==
    ASSUME CallsInv, SpinInv, calls' = calls,
           \A s \in DOMAIN Spinners : Turns(ui', s) => Turns(ui, s)
    PROVE  SpinInv'
  BY DEF SpinInv, Behind

\* The API settles what a call awaits.
LEMMA SpinSettles ==
    ASSUME CallsInv, SpinInv, ui' = ui, NEW c \in DOMAIN calls, NEW f, NEW answer,
           calls[c] # NoCall, calls' = [calls EXCEPT ![c].got[f] = answer]
    PROVE  SpinInv'
<1> DEFINE next == [calls[c] EXCEPT !.got[f] = answer]
<1>1. CallOK(calls[c], world) /\ c \in 1 .. MaxCalls
  BY DEF CallsInv
<1>2. next.by = calls[c].by /\ next.mounted = calls[c].mounted
  BY <1>1 DEF CallOK, CallFields
<1>3. \A d \in 1 .. MaxCalls : calls'[d] = IF d = c THEN next ELSE calls[d]
  BY <1>1 DEF CallsInv
<1> HIDE DEF next
<1>4. \A d \in 1 .. MaxCalls : calls'[d].by = calls[d].by /\ calls'[d].mounted = calls[d].mounted
  BY <1>2, <1>3
<1> QED
  BY <1>4 DEF SpinInv, Behind

\* A handler starts: a wait is new only if its end clears it.
LEMMA SpinAwaits ==
    ASSUME CallsInv, SpinInv, NEW by, NEW arg, NEW token, NEW functions,
           Await(by, arg, token, functions),
           \A s \in DOMAIN Spinners : Turns(ui', s) => Turns(ui, s) \/ by \in Spinners[s]
    PROVE  SpinInv'
<1>1. PICK c \in 1 .. MaxCalls :
          calls[c] = NoCall /\ calls' = [calls EXCEPT ![c] = Call(by, arg, token, functions)]
  BY DEF Await, Free, CallsInv
<1>2. \A d \in 1 .. MaxCalls : calls'[d] = IF d = c THEN Call(by, arg, token, functions) ELSE calls[d]
  BY <1>1 DEF CallsInv
<1>3. calls'[c].mounted /\ calls'[c].by = by
  BY <1>2 DEF Call
<1>4. ~calls[c].mounted
  BY <1>1 DEF NoCall
<1> QED
  BY <1>2, <1>3, <1>4 DEF SpinInv, Behind

\* The handler c ends: the page shows no wait that it is behind.
LEMMA SpinEnds ==
    ASSUME CallsInv, SpinInv, NEW c \in DOMAIN calls, End(c), NEW state, Sets(c, state),
           \A s \in DOMAIN Spinners :
               Turns(state, s) => Turns(ui, s) /\ calls[c].by \notin Spinners[s]
    PROVE  SpinInv'
<1>1. \A d \in 1 .. MaxCalls : d # c => calls'[d] = calls[d]
  BY DEF End, Ended, CallsInv
<1>2. ASSUME NEW s \in DOMAIN Spinners, Turns(ui', s)
      PROVE  Behind(s)'
  <2>1. Turns(ui, s) /\ (calls[c].mounted => calls[c].by \notin Spinners[s])
    BY <1>2 DEF Sets
  <2>2. PICK d \in 1 .. MaxCalls : calls[d].mounted /\ calls[d].by \in Spinners[s]
    BY <2>1 DEF SpinInv, Behind
  <2> QED
    BY <1>1, <2>1, <2>2 DEF Behind
<1> QED
  BY <1>2 DEF SpinInv

\* The handler c goes on with the call next: so does every wait it is behind.
LEMMA SpinGoesOn ==
    ASSUME CallsInv, SpinInv, NEW c \in DOMAIN calls, calls[c] # NoCall,
           NEW next, calls' = [calls EXCEPT ![c] = next], next.mounted = calls[c].mounted,
           NEW state, Sets(c, state),
           \A s \in DOMAIN Spinners :
               /\ Turns(state, s) => Turns(ui, s) \/ next.by \in Spinners[s]
               /\ calls[c].by \in Spinners[s] => next.by \in Spinners[s]
    PROVE  SpinInv'
<1>1. c \in 1 .. MaxCalls /\ \A d \in 1 .. MaxCalls : calls'[d] = IF d = c THEN next ELSE calls[d]
  BY DEF CallsInv
<1>2. ASSUME NEW s \in DOMAIN Spinners, Turns(ui', s)
      PROVE  Behind(s)'
  <2>1. CASE calls[c].mounted /\ next.by \in Spinners[s]
    BY <1>1, <2>1 DEF Behind
  <2>2. CASE ~(calls[c].mounted /\ next.by \in Spinners[s])
    <3>1. Turns(ui, s) /\ ~(calls[c].mounted /\ calls[c].by \in Spinners[s])
      BY <1>2, <2>2 DEF Sets
    <3>2. PICK d \in 1 .. MaxCalls : calls[d].mounted /\ calls[d].by \in Spinners[s]
      BY <3>1 DEF SpinInv, Behind
    <3> QED
      BY <1>1, <3>1, <3>2 DEF Behind
  <2> QED
    BY <2>1, <2>2
<1> QED
  BY <1>2 DEF SpinInv

\* The same when it keeps its argument.
LEMMA SpinNext ==
    ASSUME CallsInv, SpinInv, NEW c \in DOMAIN calls, calls[c] # NoCall,
           NEW by, NEW functions, AwaitNext(c, by, functions),
           NEW state, Sets(c, state),
           \A s \in DOMAIN Spinners :
               /\ Turns(state, s) => Turns(ui, s)
               /\ calls[c].by \in Spinners[s] => by \in Spinners[s]
    PROVE  SpinInv'
<1> DEFINE next == [calls[c] EXCEPT !.by = by, !.got = [f \in functions |-> Waiting]]
<1>1. CallOK(calls[c], world)
  BY DEF CallsInv
<1>2. next.by = by /\ next.mounted = calls[c].mounted
  BY <1>1, NextCall DEF CallOK
<1>3. calls' = [calls EXCEPT ![c] = next]
  BY DEF AwaitNext
<1> HIDE DEF next
<1> QED
  BY <1>2, <1>3, SpinGoesOn

\* The page is left: it shows nothing any more.
LEMMA SpinLeaves ==
    ASSUME NEW route, ui' = Opening(route)
    PROVE  SpinInv'
<1>1. \A s \in DOMAIN Spinners : ~Turns(ui', s)
  BY SpinnerNames DEF Opening, Turns
<1> QED
  BY <1>1 DEF SpinInv

\* Leaving a page, and what happens off the page.
LEMMA SpinMoves ==
    ASSUME SpinInv, Navigate \/ HandleLogout \/ ReturnToSignIn
    PROVE  SpinInv'
  BY SpinLeaves DEF Navigate, HandleLogout, ReturnToSignIn, Push

\* The pages that call nothing when they are mounted.
LEMMA SpinMounts ==
    ASSUME CallsInv, SpinInv, HomeMount \/ LoginMount \/ RegisterMount \/ OrgMount
    PROVE  SpinInv'
<1>1. calls' = calls
  BY DEF HomeMount, LoginMount, RegisterMount, OrgMount
<1>2. CASE ui' = [page |-> "home", mounted |-> TRUE]
  <2>1. DOMAIN ui' = {"page", "mounted"}
    BY <1>2
  <2> QED
    BY <1>1, <2>1, SpinnerNames, SpinStays DEF Turns
<1>3. CASE ui' = [page |-> "login", mounted |-> TRUE, loading |-> FALSE, error |-> FALSE]
  <2>1. DOMAIN ui' = {"page", "mounted", "loading", "error"} /\ ~ui'.loading
    BY <1>3
  <2> QED
    BY <1>1, <2>1, SpinnerNames, SpinStays DEF Turns
<1>4. CASE ui' = [page |-> "register", mounted |-> TRUE, step |-> 1, loading |-> FALSE,
                  error |-> FALSE, email |-> None, otp |-> None, createdFor |-> None]
  <2>1. /\ DOMAIN ui' = {"page", "mounted", "step", "loading", "error", "email", "otp", "createdFor"}
        /\ ~ui'.loading
    BY <1>4
  <2> QED
    BY <1>1, <2>1, SpinnerNames, SpinStays DEF Turns
<1>5. CASE ui' = [page |-> "org", mounted |-> TRUE, loading |-> FALSE, error |-> FALSE,
                  submitted |-> None, live |-> None]
  <2>1. DOMAIN ui' = {"page", "mounted", "loading", "error", "submitted", "live"} /\ ~ui'.loading
    BY <1>5
  <2> QED
    BY <1>1, <2>1, SpinnerNames, SpinStays DEF Turns
<1> QED
  BY <1>2, <1>3, <1>4, <1>5 DEF HomeMount, LoginMount, RegisterMount, OrgMount

\* The sign-in page.
LEMMA SpinSignsIn ==
    ASSUME CallsInv, SpinInv, HandleSubmit
    PROVE  SpinInv'
<1>1. PICK account : Await("login", account, None, {"loginUser"})
  BY DEF HandleSubmit
<1>2. \A s \in DOMAIN Spinners : Turns(ui', s) => Turns(ui, s) \/ "login" \in Spinners[s]
  BY SpinnerNames DEF HandleSubmit, Turns
<1> QED
  BY <1>1, <1>2, SpinAwaits

\* Its call is answered.
LEMMA SpinSignedIn ==
    ASSUME CallsInv, SpinInv, NEW c \in DOMAIN calls, HandleSubmitResumes(c)
    PROVE  SpinInv'
<1>1. CASE \E route : Push(route, Ended(c))
  BY <1>1, SpinLeaves DEF Push
<1>2. CASE End(c) /\ Sets(c, [ui EXCEPT !.loading = FALSE, !.error = TRUE])
  <2> DEFINE state == [ui EXCEPT !.loading = FALSE, !.error = TRUE]
  <2>1. \A s \in DOMAIN Spinners : Turns(state, s) => Turns(ui, s) /\ calls[c].by \notin Spinners[s]
    BY SpinnerNames DEF HandleSubmitResumes, Resumes, Turns
  <2> HIDE DEF state
  <2> QED
    BY <1>2, <2>1, SpinEnds DEF state
<1> QED
  BY <1>1, <1>2 DEF HandleSubmitResumes

\* The registration wizard.
LEMMA SpinWizard ==
    ASSUME CallsInv, SpinInv,
           \/ ContinueToContact \/ SetEmail \/ SetOtpCode \/ Back
           \/ HandleRequestOtp \/ HandleFinalSubmit
    PROVE  SpinInv'
<1>1. CASE ContinueToContact \/ SetEmail \/ SetOtpCode \/ Back
  <2>1. calls' = calls
    BY <1>1 DEF ContinueToContact, SetEmail, SetOtpCode, Back, Wizard
  <2>2. \A s \in DOMAIN Spinners : Turns(ui', s) => Turns(ui, s)
    BY <1>1, SpinnerNames DEF ContinueToContact, SetEmail, SetOtpCode, Back, Wizard, Turns
  <2> QED
    BY <2>1, <2>2, SpinStays
<1>2. CASE ui' = [ui EXCEPT !.error = TRUE] /\ calls' = calls
  <2>1. \A s \in DOMAIN Spinners : Turns(ui', s) => Turns(ui, s)
    BY <1>2, SpinnerNames DEF Turns
  <2> QED
    BY <1>2, <2>1, SpinStays
<1>3. ASSUME NEW by \in {"otp", "register"}, NEW arg, NEW f, Await(by, arg, None, {f}),
             ui' = [ui EXCEPT !.error = FALSE, !.loading = TRUE]
      PROVE  SpinInv'
  <2>1. \A s \in DOMAIN Spinners : Turns(ui', s) => Turns(ui, s) \/ by \in Spinners[s]
    BY <1>3, SpinnerNames DEF Turns
  <2> QED
    BY <1>3, <2>1, SpinAwaits
<1> QED
  BY <1>1, <1>2, <1>3 DEF HandleRequestOtp, HandleFinalSubmit

\* Its calls are answered.
LEMMA SpinWizardAnswered ==
    ASSUME CallsInv, SpinInv, NEW c \in DOMAIN calls,
           HandleRequestOtpResumes(c) \/ HandleFinalSubmitResumes(c)
    PROVE  SpinInv'
<1>1. End(c) /\ calls[c].by \in {"otp", "register"}
  BY DEF HandleRequestOtpResumes, HandleFinalSubmitResumes, Resumes
<1>2. ASSUME NEW state, Sets(c, state),
             \A s \in DOMAIN Spinners : Turns(state, s) => Turns(ui, s) /\ s # "loading"
      PROVE  SpinInv'
  BY <1>1, <1>2, SpinnerNames, SpinEnds
<1>3. /\ \A s \in DOMAIN Spinners :
             Turns([ui EXCEPT !.loading = FALSE, !.otp = None, !.step = 3], s) =>
                 Turns(ui, s) /\ s # "loading"
      /\ \A s \in DOMAIN Spinners :
             Turns([ui EXCEPT !.loading = FALSE, !.error = TRUE], s) =>
                 Turns(ui, s) /\ s # "loading"
      /\ \A s \in DOMAIN Spinners :
             Turns([ui EXCEPT !.error = TRUE, !.loading = FALSE], s) =>
                 Turns(ui, s) /\ s # "loading"
      /\ \A s \in DOMAIN Spinners : \A account :
             Turns([ui EXCEPT !.createdFor = account, !.step = 4, !.loading = FALSE], s) =>
                 Turns(ui, s) /\ s # "loading"
  BY SpinnerNames DEF Turns
<1>4. CASE HandleRequestOtpResumes(c)
  BY <1>2, <1>3, <1>4 DEF HandleRequestOtpResumes
<1>5. CASE HandleFinalSubmitResumes(c)
  <2>1. CASE Sets(c, [ui EXCEPT !.createdFor = Value(c, "registerUser"), !.step = 4,
                                !.loading = FALSE])
    BY <1>2, <1>3, <2>1
  <2>2. CASE Sets(c, [ui EXCEPT !.error = TRUE, !.loading = FALSE])
    BY <1>2, <1>3, <2>2
  <2> QED
    BY <1>5, <2>1, <2>2 DEF HandleFinalSubmitResumes
<1> QED
  BY <1>4, <1>5

\* The page of a verifier.
LEMMA SpinVerifies ==
    ASSUME CallsInv, SpinInv, VerifyMount \/ LinkChanges \/ SubmitToken \/ EditToken
    PROVE  SpinInv'
<1>1. ASSUME NEW page, NEW token, HandleVerify(page, token),
             \A s \in DOMAIN Spinners : Turns(page, s) => Turns(ui, s)
      PROVE  SpinInv'
  <2>1. \A s \in DOMAIN Spinners : Turns(ui', s) => Turns(ui, s) \/ "verify" \in Spinners[s]
    BY <1>1, SpinnerNames DEF HandleVerify, Sent, Turns
  <2> QED
    BY <1>1, <2>1, SpinAwaits DEF HandleVerify
<1>2. ASSUME NEW token, NEW s \in DOMAIN Spinners
      PROVE  ~Turns(VerifyState(token), s)
  <2> DEFINE state == VerifyState(token)
  <2>1. /\ DOMAIN state = {"page", "mounted", "link", "input", "loading", "result", "error",
                           "asked", "sent", "overlapped"}
        /\ ~state.loading
    BY DEF VerifyState
  <2> HIDE DEF state
  <2>2. ~Turns(state, s)
    BY <2>1, SpinnerNames DEF Turns
  <2> QED
    BY <2>2 DEF state
<1>3. ASSUME calls' = calls,
             \/ \E token : ui' = VerifyState(token)
             \/ ui' = [ui EXCEPT !.error = TRUE] \/ ui' = [ui EXCEPT !.link = None]
             \/ \E token : ui' = [ui EXCEPT !.input = token]
      PROVE  SpinInv'
  <2>1. CASE \E token : ui' = VerifyState(token)
    BY <1>2, <1>3, <2>1, SpinStays
  <2>2. CASE \/ ui' = [ui EXCEPT !.error = TRUE] \/ ui' = [ui EXCEPT !.link = None]
             \/ \E token : ui' = [ui EXCEPT !.input = token]
    <3>1. \A s \in DOMAIN Spinners : Turns(ui', s) => Turns(ui, s)
      BY <2>2, SpinnerNames DEF Turns
    <3> QED
      BY <1>3, <3>1, SpinStays
  <2> QED
    BY <1>3, <2>1, <2>2
<1>4. CASE VerifyMount
  <2>1. CASE \E token \in QRTokens : HandleVerify(VerifyState(token), token)
    BY <1>1, <1>2, <2>1
  <2> QED
    BY <1>3, <1>4, <2>1 DEF VerifyMount
<1>5. CASE SubmitToken
  BY <1>1, <1>3, <1>5 DEF SubmitToken
<1>6. CASE EditToken
  BY <1>3, <1>6 DEF EditToken
<1>7. CASE LinkChanges
  <2>1. ASSUME NEW token,
               HandleVerify([ui EXCEPT !.link = token, !.overlapped = @ \/ ui.loading], token)
        PROVE  SpinInv'
    <3> DEFINE page == [ui EXCEPT !.link = token, !.overlapped = @ \/ ui.loading]
    <3>1. \A s \in DOMAIN Spinners : Turns(page, s) => Turns(ui, s)
      BY SpinnerNames DEF Turns
    <3> HIDE DEF page
    <3> QED
      BY <1>1, <2>1, <3>1 DEF page
  <2> QED
    BY <1>3, <1>7, <2>1 DEF LinkChanges
<1> QED
  BY <1>4, <1>5, <1>6, <1>7

\* The verdict arrives.
LEMMA SpinVerified ==
    ASSUME CallsInv, SpinInv, NEW c \in DOMAIN calls, HandleVerifyResumes(c)
    PROVE  SpinInv'
<1>1. End(c) /\ calls[c].by = "verify"
  BY DEF HandleVerifyResumes, Resumes
<1>2. PICK state :
          /\ Sets(c, state)
          /\ \/ \E result : state = [ui EXCEPT !.loading = FALSE, !.result = result]
             \/ state = [ui EXCEPT !.loading = FALSE, !.error = TRUE]
  BY DEF HandleVerifyResumes
<1>3. \A s \in DOMAIN Spinners : Turns(state, s) => Turns(ui, s) /\ s # "loading"
  BY <1>2, SpinnerNames DEF Turns
<1> QED
  BY <1>1, <1>2, <1>3, SpinEnds, SpinnerNames

\* The page of an organization.
LEMMA SpinOrganization ==
    ASSUME CallsInv, SpinInv,
           HandleDemoRecruiterAuth \/ HandleCreateRequest \/ Subscribe \/ ConsentRequestResponded
    PROVE  SpinInv'
<1>1. CASE HandleDemoRecruiterAuth
  <2>1. \A s \in DOMAIN Spinners : Turns(ui', s) => Turns(ui, s) \/ "recruiter" \in Spinners[s]
    BY <1>1, SpinnerNames DEF HandleDemoRecruiterAuth, Turns
  <2> QED
    BY <1>1, <2>1, SpinAwaits DEF HandleDemoRecruiterAuth
<1>2. CASE ui' = [NewRequest EXCEPT !.error = TRUE, !.loading = FALSE] /\ calls' = calls
  <2>1. \A s \in DOMAIN Spinners : Turns(ui', s) => Turns(ui, s)
    BY <1>2, SpinnerNames DEF NewRequest, Turns
  <2> QED
    BY <1>2, <2>1, SpinStays
<1>3. CASE ui' = NewRequest /\ Await("create", None, ActiveToken, {"createVerificationRequest"})
  <2>1. \A s \in DOMAIN Spinners : Turns(ui', s) => Turns(ui, s) \/ "create" \in Spinners[s]
    BY <1>3, SpinnerNames DEF NewRequest, Turns
  <2> QED
    BY <1>3, <2>1, SpinAwaits
<1>4. CASE Subscribe \/ ConsentRequestResponded
  <2>1. calls' = calls /\ \A s \in DOMAIN Spinners : Turns(ui', s) => Turns(ui, s)
    BY <1>4, SpinnerNames DEF Subscribe, ConsentRequestResponded, Turns
  <2> QED
    BY <2>1, SpinStays
<1> QED
  BY <1>1, <1>2, <1>3, <1>4 DEF HandleCreateRequest

\* Its calls are answered.
LEMMA SpinOrganizationAnswered ==
    ASSUME CallsInv, SpinInv, NEW c \in DOMAIN calls, calls[c] # NoCall,
           HandleDemoRecruiterAuthResumes(c) \/ HandleCreateRequestResumes(c)
    PROVE  SpinInv'
<1>1. calls[c].by \in {"recruiter", "create"}
  BY DEF HandleDemoRecruiterAuthResumes, HandleCreateRequestResumes, Resumes
<1>2. ASSUME End(c), NEW state, Sets(c, state),
             \/ state = [ui EXCEPT !.loading = FALSE]
             \/ state = [ui EXCEPT !.loading = FALSE, !.error = TRUE]
             \/ \E r : state = [ui EXCEPT !.loading = FALSE, !.submitted = r]
      PROVE  SpinInv'
  <2>1. \A s \in DOMAIN Spinners : Turns(state, s) => Turns(ui, s) /\ s # "loading"
    BY <1>2, SpinnerNames DEF Turns
  <2> QED
    BY <1>1, <1>2, <2>1, SpinEnds, SpinnerNames
<1>3. CASE calls' = [calls EXCEPT ![c].arg = Officer,
                                  ![c].got = [f \in {"loginUser"} |-> Waiting]] /\ ui' = ui
  <2> DEFINE next == [calls[c] EXCEPT !.arg = Officer, !.got = [f \in {"loginUser"} |-> Waiting]]
  <2>1. CallOK(calls[c], world)
    BY DEF CallsInv
  <2>2. next.by = calls[c].by /\ next.mounted = calls[c].mounted
    BY <2>1 DEF CallOK, CallFields
  <2>3. calls' = [calls EXCEPT ![c] = next] /\ Sets(c, ui)
    BY <1>3 DEF Sets
  <2> HIDE DEF next
  <2> QED
    BY <2>2, <2>3, SpinGoesOn
<1> QED
  BY <1>2, <1>3 DEF HandleDemoRecruiterAuthResumes, HandleCreateRequestResumes

\* The dashboard is mounted and loaded, and loaded again when an event comes.
LEMMA SpinLoads ==
    ASSUME CallsInv, SpinInv, DashboardMount \/ AmendmentStatusChanged
    PROVE  SpinInv'
<1>1. CASE \E token : Await("load identity", None, token, {"getMyIdentity"})
  <2>1. \A s \in DOMAIN Spinners : Turns(ui', s) => Turns(ui, s) \/ s = "loading"
    <3>1. CASE DashboardMount
      <4> DEFINE state == DashboardState(session)
      <4>1. /\ ~state.generating /\ ~state.submitting /\ ~state.loadingVC /\ ~state.loadingDID
        BY DEF DashboardState
      <4> HIDE DEF state
      <4>2. \A s \in DOMAIN Spinners : Turns(Loading(state), s) => s = "loading"
        BY <4>1, SpinnerNames DEF Turns, Loading
      <4>3. ui' = Loading(state) \/ ui' = Opening("login")
        BY <3>1 DEF DashboardMount, state, Push
      <4>4. \A s \in DOMAIN Spinners : ~Turns(Opening("login"), s)
        BY SpinnerNames DEF Opening, Turns
      <4> QED
        BY <4>2, <4>3, <4>4
    <3>2. CASE AmendmentStatusChanged
      <4>1. PICK event : ui' = Loading(StatusShown(event))
        BY <3>2 DEF AmendmentStatusChanged
      <4> QED
        BY <4>1, SpinnerNames DEF Loading, StatusShown, Turns
    <3> QED
      BY <3>1, <3>2
  <2>2. \A s \in DOMAIN Spinners : s = "loading" => "load identity" \in Spinners[s]
    BY SpinnerNames
  <2>3. \A s \in DOMAIN Spinners : Turns(ui', s) => Turns(ui, s) \/ "load identity" \in Spinners[s]
    BY <2>1, <2>2
  <2> QED
    BY <1>1, <2>3, SpinAwaits
<1>2. CASE Push("login", calls)
  BY <1>2, SpinLeaves DEF Push
<1> QED
  BY <1>1, <1>2 DEF DashboardMount, AmendmentStatusChanged

\* What happens to the dashboard and shows no wait.
LEMMA SpinDashboardStays ==
    ASSUME CallsInv, SpinInv,
           \/ DashboardFeedOpens \/ DashboardFeedBreaks \/ ConsentRequestCreated \/ MessageTimeout
    PROVE  SpinInv'
<1>1. \A s \in DOMAIN Spinners : Turns(ui', s) => Turns(ui, s)
  BY SpinnerNames DEF DashboardFeedOpens, DashboardFeedBreaks, ConsentRequestCreated,
     MessageTimeout, Turns
<1>2. \/ calls' = calls
      \/ \E by, arg, token, functions : Await(by, arg, token, functions)
  BY DEF DashboardFeedOpens, DashboardFeedBreaks, ConsentRequestCreated, MessageTimeout
<1> QED
  BY <1>1, <1>2, SpinStays, SpinAwaits

\* The clicks on the dashboard that call nothing.
LEMMA SpinDashboardClicks ==
    ASSUME CallsInv, SpinInv,
           \/ On("dashboard") /\ ReviewNow
           \/ ToggleScope \/ SetQrDuration \/ CloseVC \/ CloseDID
           \/ OpenAmendmentModal \/ CloseAmendmentModal \/ EditForm \/ HandleToggleDocSelection
    PROVE  SpinInv'
<1>1. calls' = calls
  BY DEF ReviewNow, ToggleScope, SetQrDuration, CloseVC, CloseDID, OpenAmendmentModal,
     CloseAmendmentModal, EditForm, HandleToggleDocSelection, Clicked
<1>2. \A s \in DOMAIN Spinners : Turns(ui', s) => Turns(ui, s)
  BY SpinnerNames DEF ReviewNow, ToggleScope, SetQrDuration, CloseVC, CloseDID,
     OpenAmendmentModal, CloseAmendmentModal, EditForm, HandleToggleDocSelection,
     Clicked, Turns
<1> QED
  BY <1>1, <1>2, SpinStays

\* Those that call the API.
LEMMA SpinDashboardCalls ==
    ASSUME CallsInv, SpinInv,
           \/ HandleConsent \/ HandleGenerateCustomQR \/ HandleInspectW3C \/ HandleViewDID
           \/ HandleSubmitAmendment \/ HandleFileUpload
    PROVE  SpinInv'
<1>1. ASSUME NEW by, NEW arg, NEW f, NEW state, Calls(by, arg, f, state),
             \/ by = "consent" /\ state = ui
             \/ by = "qr" /\ state = [ui EXCEPT !.generating = TRUE]
             \/ by = "vc" /\ state = [ui EXCEPT !.loadingVC = TRUE]
             \/ by = "did" /\ state = [ui EXCEPT !.loadingDID = TRUE]
             \/ by = "amend" /\ state = [ui EXCEPT !.submitting = TRUE, !.error = FALSE]
      PROVE  SpinInv'
  <2>1. \A s \in DOMAIN Spinners : Turns(state, s) => Turns(ui, s) \/ by \in Spinners[s]
    BY <1>1, SpinnerNames DEF Turns
  <2> QED
    BY <1>1, <2>1, SpinAwaits DEF Calls
<1>2. CASE Clicked([ui EXCEPT !.error = TRUE])
  <2>1. calls' = calls /\ \A s \in DOMAIN Spinners : Turns(ui', s) => Turns(ui, s)
    BY <1>2, SpinnerNames DEF Clicked, Turns
  <2> QED
    BY <2>1, SpinStays
<1>3. CASE HandleConsent
  BY <1>1, <1>3 DEF HandleConsent
<1>4. CASE HandleGenerateCustomQR
  BY <1>1, <1>4 DEF HandleGenerateCustomQR
<1>5. CASE HandleInspectW3C
  BY <1>1, <1>5 DEF HandleInspectW3C
<1>6. CASE HandleViewDID
  BY <1>1, <1>6 DEF HandleViewDID
<1>7. CASE HandleSubmitAmendment
  <2> DEFINE arg == [changes |-> RequestedChanges, documents |-> ui.selected,
                     edited |-> ui.edited, genderless |-> ui.profile.gender = "",
                     profileless |-> ui.profile = NullProfile]
             state == [ui EXCEPT !.submitting = TRUE, !.error = FALSE]
  <2>1. \/ Clicked([ui EXCEPT !.error = TRUE])
        \/ Calls("amend", arg, "createAmendmentRequest", state)
    BY <1>7 DEF HandleSubmitAmendment
  <2> HIDE DEF arg
  <2> QED
    BY <1>1, <1>2, <2>1
<1>8. CASE HandleFileUpload
  <2>1. \A s \in DOMAIN Spinners : Turns(ui', s) => Turns(ui, s)
    BY <1>8, SpinnerNames DEF HandleFileUpload, Turns
  <2> QED
    BY <1>8, <2>1, SpinAwaits DEF HandleFileUpload
<1> QED
  BY <1>3, <1>4, <1>5, <1>6, <1>7, <1>8

\* The load of the dashboard goes on to its next call, or ends.
LEMMA SpinLoadAnswered ==
    ASSUME CallsInv, SpinInv, NEW c \in DOMAIN calls, calls[c] # NoCall,
           \/ LoadIdentityResumes(c) \/ LoadRequestsResumes(c)
           \/ LoadHistoryResumes(c) \/ LoadQRResumes(c)
    PROVE  SpinInv'
<1>1. ASSUME calls[c].by \in {"load identity", "load requests", "load history"},
             NEW by \in {"load requests", "load history", "load qr"}, NEW s \in DOMAIN Spinners,
             calls[c].by \in Spinners[s]
      PROVE  by \in Spinners[s]
  BY <1>1, SpinnerNames
<1>2. CASE LoadIdentityResumes(c)
  <2>1. CASE SetsThen(c, ShowIdentity(Value(c, "getMyIdentity")),
                      "load requests", {"getPendingVerificationRequests"})
    <3> DEFINE state == ShowIdentity(Value(c, "getMyIdentity"))
    <3>1. \A s \in DOMAIN Spinners : Turns(state, s) => Turns(ui, s)
      BY SpinnerNames DEF ShowIdentity, Turns
    <3> HIDE DEF state
    <3> QED
      BY <1>1, <1>2, <2>1, <3>1, SpinNext DEF LoadIdentityResumes, Resumes, SetsThen, state
  <2>2. CASE Sets1(c, [ui EXCEPT !.error = TRUE, !.loading = FALSE])
    <3> DEFINE state == [ui EXCEPT !.error = TRUE, !.loading = FALSE]
    <3>1. \A s \in DOMAIN Spinners :
              Turns(state, s) => Turns(ui, s) /\ calls[c].by \notin Spinners[s]
      BY <1>2, SpinnerNames DEF LoadIdentityResumes, Resumes, Turns
    <3> HIDE DEF state
    <3> QED
      BY <2>2, <3>1, SpinEnds DEF Sets1, state
  <2> QED
    BY <1>2, <2>1, <2>2 DEF LoadIdentityResumes
<1>3. CASE LoadRequestsResumes(c)
  <2>1. PICK state :
            /\ SetsThen(c, state, "load history", {"listMyAmendments", "listMyDocuments"})
            /\ state = ui \/ \E r : state = [ui EXCEPT !.requests = r]
    BY <1>3 DEF LoadRequestsResumes
  <2>2. \A s \in DOMAIN Spinners : Turns(state, s) => Turns(ui, s)
    BY <2>1, SpinnerNames DEF Turns
  <2> QED
    BY <1>1, <1>3, <2>1, <2>2, SpinNext DEF LoadRequestsResumes, Resumes, SetsThen
<1>4. CASE LoadHistoryResumes(c)
  <2>1. PICK state :
            /\ Sets(c, state)
            /\ \/ state = ui
               \/ \E a, d : state = [ui EXCEPT !.amendments = a, !.documents = d]
    BY <1>4 DEF LoadHistoryResumes
  <2>2. \A s \in DOMAIN Spinners : Turns(state, s) => Turns(ui, s)
    BY <2>1, SpinnerNames DEF Turns
  <2> DEFINE next == [calls[c] EXCEPT !.by = "load qr", !.arg = DefaultQR,
                                      !.got = [f \in {"generateQRToken"} |-> Waiting]]
  <2>3. CallOK(calls[c], world)
    BY DEF CallsInv
  <2>4. next.by = "load qr" /\ next.mounted = calls[c].mounted
    BY <2>3 DEF CallOK, CallFields
  <2>5. calls' = [calls EXCEPT ![c] = next]
    BY <1>4 DEF LoadHistoryResumes
  <2> HIDE DEF next
  <2>6. calls[c].by = "load history"
    BY <1>4 DEF LoadHistoryResumes, Resumes
  <2>7. \A s \in DOMAIN Spinners : calls[c].by \in Spinners[s] => next.by \in Spinners[s]
    BY <1>1, <2>4, <2>6
  <2> QED
    BY <2>1, <2>2, <2>4, <2>5, <2>7, SpinGoesOn
<1>5. CASE LoadQRResumes(c)
  <2>1. PICK state :
            /\ Sets1(c, state)
            /\ \/ state = [ui EXCEPT !.loading = FALSE]
               \/ \E qr : state = [ui EXCEPT !.qr = qr, !.loading = FALSE]
    BY <1>5 DEF LoadQRResumes
  <2>2. \A s \in DOMAIN Spinners : Turns(state, s) => Turns(ui, s) /\ s # "loading"
    BY <2>1, SpinnerNames DEF Turns
  <2>3. \A s \in DOMAIN Spinners : s # "loading" => calls[c].by \notin Spinners[s]
    BY <1>5, SpinnerNames DEF LoadQRResumes, Resumes
  <2> QED
    BY <2>1, <2>2, <2>3, SpinEnds DEF Sets1
<1> QED
  BY <1>2, <1>3, <1>4, <1>5

\* The other calls of the dashboard end, or go on with a refresh.
LEMMA SpinAnswered ==
    ASSUME CallsInv, SpinInv, NEW c \in DOMAIN calls, calls[c] # NoCall,
           \/ RefreshResumes(c) \/ HandleConsentResumes(c) \/ HandleGenerateCustomQRResumes(c)
           \/ HandleInspectW3CResumes(c) \/ HandleViewDIDResumes(c)
           \/ HandleSubmitAmendmentResumes(c) \/ HandleFileUploadResumes(c)
           \/ ConsentRefreshResumes(c) \/ FileRead(c)
    PROVE  SpinInv'
<1>1. ASSUME NEW state, Sets1(c, state), NEW flag,
             \A s \in DOMAIN Spinners : calls[c].by \in Spinners[s] => s = flag,
             \A s \in DOMAIN Spinners : Turns(state, s) => Turns(ui, s) /\ s # flag
      PROVE  SpinInv'
  BY <1>1, SpinEnds DEF Sets1
<1>2. CASE RefreshResumes(c)
  <2>1. PICK state :
            Sets1(c, state) /\ (state = ui \/ \E r : state = [ui EXCEPT !.requests = r])
    BY <1>2 DEF RefreshResumes
  <2>2. \A s \in DOMAIN Spinners : calls[c].by \notin Spinners[s]
    BY <1>2, SpinnerNames DEF RefreshResumes, Resumes
  <2>3. \A s \in DOMAIN Spinners : Turns(state, s) => Turns(ui, s)
    BY <2>1, SpinnerNames DEF Turns
  <2> QED
    BY <2>1, <2>2, <2>3, SpinEnds DEF Sets1
<1>3. CASE HandleConsentResumes(c)
  <2>0. calls[c].by = "consent" /\ \A s \in DOMAIN Spinners : calls[c].by \notin Spinners[s]
    BY <1>3, SpinnerNames DEF HandleConsentResumes, Resumes
  <2>1. CASE \E message : SetsThen(c, [ui EXCEPT !.success = message], "consent refresh",
                                   {"getPendingVerificationRequests"})
    <3>1. PICK message : SetsThen(c, [ui EXCEPT !.success = message], "consent refresh",
                                  {"getPendingVerificationRequests"})
      BY <2>1
    <3> DEFINE state == [ui EXCEPT !.success = message]
    <3>2. \A s \in DOMAIN Spinners : Turns(state, s) => Turns(ui, s)
      BY SpinnerNames DEF Turns
    <3> HIDE DEF state
    <3> QED
      BY <2>0, <3>1, <3>2, SpinNext DEF SetsThen, state
  <2>2. CASE Sets1(c, [ui EXCEPT !.error = TRUE])
    <3> DEFINE state == [ui EXCEPT !.error = TRUE]
    <3>1. \A s \in DOMAIN Spinners : Turns(state, s) => Turns(ui, s)
      BY SpinnerNames DEF Turns
    <3> HIDE DEF state
    <3> QED
      BY <2>0, <2>2, <3>1, SpinEnds DEF Sets1, state
  <2> QED
    BY <1>3, <2>1, <2>2 DEF HandleConsentResumes
<1>4. CASE HandleGenerateCustomQRResumes(c)
  <2>1. \A s \in DOMAIN Spinners : calls[c].by \in Spinners[s] => s = "generating"
    BY <1>4, SpinnerNames DEF HandleGenerateCustomQRResumes, Resumes
  <2> DEFINE done(qr, message) == Succeeds([ui EXCEPT !.qr = qr, !.generating = FALSE], message)
  <2>2. \A qr, message : \A s \in DOMAIN Spinners :
            Turns(done(qr, message), s) => Turns(ui, s) /\ s # "generating"
    BY SpinnerNames DEF Turns, Succeeds
  <2>3. \A s \in DOMAIN Spinners :
            Turns([ui EXCEPT !.error = TRUE, !.generating = FALSE], s) =>
                Turns(ui, s) /\ s # "generating"
    BY SpinnerNames DEF Turns
  <2>4. ASSUME NEW qr, NEW message, Sets1(c, done(qr, message))
        PROVE  SpinInv'
    <3> HIDE DEF done
    <3> QED
      BY <1>1, <2>1, <2>2, <2>4
  <2>5. CASE Sets1(c, [ui EXCEPT !.error = TRUE, !.generating = FALSE])
    BY <1>1, <2>1, <2>3, <2>5
  <2> QED
    BY <1>4, <2>4, <2>5 DEF HandleGenerateCustomQRResumes
<1>5. CASE HandleInspectW3CResumes(c)
  <2>1. PICK state :
            /\ Sets1(c, state)
            /\ \/ state = [ui EXCEPT !.vc = TRUE, !.loadingVC = FALSE]
               \/ state = [ui EXCEPT !.error = TRUE, !.loadingVC = FALSE]
    BY <1>5 DEF HandleInspectW3CResumes
  <2>2. \A s \in DOMAIN Spinners : calls[c].by \in Spinners[s] => s = "loadingVC"
    BY <1>5, SpinnerNames DEF HandleInspectW3CResumes, Resumes
  <2>3. \A s \in DOMAIN Spinners : Turns(state, s) => Turns(ui, s) /\ s # "loadingVC"
    BY <2>1, SpinnerNames DEF Turns
  <2> QED
    BY <1>1, <2>1, <2>2, <2>3
<1>6. CASE HandleViewDIDResumes(c)
  <2>1. PICK state :
            /\ Sets1(c, state)
            /\ \/ state = [ui EXCEPT !.did = TRUE, !.loadingDID = FALSE]
               \/ state = [ui EXCEPT !.error = TRUE, !.loadingDID = FALSE]
    BY <1>6 DEF HandleViewDIDResumes
  <2>2. \A s \in DOMAIN Spinners : calls[c].by \in Spinners[s] => s = "loadingDID"
    BY <1>6, SpinnerNames DEF HandleViewDIDResumes, Resumes
  <2>3. \A s \in DOMAIN Spinners : Turns(state, s) => Turns(ui, s) /\ s # "loadingDID"
    BY <2>1, SpinnerNames DEF Turns
  <2> QED
    BY <1>1, <2>1, <2>2, <2>3
<1>7. CASE HandleSubmitAmendmentResumes(c)
  <2>1. \A s \in DOMAIN Spinners : calls[c].by \in Spinners[s] => s = "submitting"
    BY <1>7, SpinnerNames DEF HandleSubmitAmendmentResumes, Resumes
  <2> DEFINE done(id, message) ==
                 Succeeds([ui EXCEPT !.amendments = @ \cup {id}, !.modal = FALSE,
                                     !.submitting = FALSE], message)
  <2>2. \A id, message : \A s \in DOMAIN Spinners :
            Turns(done(id, message), s) => Turns(ui, s) /\ s # "submitting"
    BY SpinnerNames DEF Turns, Succeeds
  <2>3. \A s \in DOMAIN Spinners :
            Turns([ui EXCEPT !.error = TRUE, !.submitting = FALSE], s) =>
                Turns(ui, s) /\ s # "submitting"
    BY SpinnerNames DEF Turns
  <2>4. ASSUME NEW id, NEW message, Sets1(c, done(id, message))
        PROVE  SpinInv'
    <3> HIDE DEF done
    <3> QED
      BY <1>1, <2>1, <2>2, <2>4
  <2>5. CASE Sets1(c, [ui EXCEPT !.error = TRUE, !.submitting = FALSE])
    BY <1>1, <2>1, <2>3, <2>5
  <2> QED
    BY <1>7, <2>4, <2>5 DEF HandleSubmitAmendmentResumes
<1>8. CASE HandleFileUploadResumes(c)
  <2>1. \A s \in DOMAIN Spinners : calls[c].by \notin Spinners[s]
    BY <1>8, SpinnerNames DEF HandleFileUploadResumes, Resumes
  <2>2. ASSUME NEW state, Sets1(c, state), \A s \in DOMAIN Spinners : Turns(state, s) => Turns(ui, s)
        PROVE  SpinInv'
    BY <2>1, <2>2, SpinEnds DEF Sets1
  <2>3. \A d, message : \A s \in DOMAIN Spinners :
            Turns(Succeeds([ui EXCEPT !.documents = @ \cup {d}, !.selected = @ \cup {d},
                                      !.uploading = FALSE], message), s) => Turns(ui, s)
    BY SpinnerNames DEF Turns, Succeeds
  <2>4. \A s \in DOMAIN Spinners :
            Turns([ui EXCEPT !.error = TRUE, !.uploading = FALSE], s) => Turns(ui, s)
    BY SpinnerNames DEF Turns
  <2>5. CASE \E d, message :
                Sets1(c, Succeeds([ui EXCEPT !.documents = @ \cup {d}, !.selected = @ \cup {d},
                                             !.uploading = FALSE], message))
    BY <2>2, <2>3, <2>5
  <2>6. CASE Sets1(c, [ui EXCEPT !.error = TRUE, !.uploading = FALSE])
    BY <2>2, <2>4, <2>6
  <2> QED
    BY <1>8, <2>5, <2>6 DEF HandleFileUploadResumes
<1>9. CASE ConsentRefreshResumes(c)
  <2>1. PICK state :
            /\ Sets1(c, state)
            /\ \/ \E r : state = [ui EXCEPT !.requests = r, !.timer = TRUE]
               \/ state = [ui EXCEPT !.error = TRUE]
    BY <1>9 DEF ConsentRefreshResumes
  <2>2. \A s \in DOMAIN Spinners : calls[c].by \notin Spinners[s]
    BY <1>9, SpinnerNames DEF ConsentRefreshResumes, Resumes
  <2>3. \A s \in DOMAIN Spinners : Turns(state, s) => Turns(ui, s)
    BY <2>1, SpinnerNames DEF Turns
  <2> QED
    BY <2>1, <2>2, <2>3, SpinEnds DEF Sets1
<1>10. CASE FileRead(c)
  <2>1. \A s \in DOMAIN Spinners : calls[c].by \notin Spinners[s]
    BY <1>10, SpinnerNames DEF FileRead, Resumes
  <2>2. Sets(c, ui)
    BY <1>10 DEF FileRead, Sets
  <2>3. CASE AwaitNext(c, "upload", {"uploadIdentityDocument"})
    BY <2>1, <2>2, <2>3, SpinNext
  <2>4. CASE End(c)
    BY <2>1, <2>2, <2>4, SpinEnds
  <2> QED
    BY <1>10, <2>3, <2>4 DEF FileRead
<1> QED
  BY <1>2, <1>3, <1>4, <1>5, <1>6, <1>7, <1>8, <1>9, <1>10

\* The console is loaded, or asks for a sign-in.
LEMMA SpinConsoleLoads ==
    ASSUME CallsInv, SpinInv, AdminMount \/ RefreshRecords \/ HandleSaveDbConfig
    PROVE  SpinInv'
<1>1. ASSUME NEW state, LoadAdminData(state),
             \A s \in DOMAIN Spinners : Turns(state, s) => Turns(ui, s) \/ s = "loading"
      PROVE  SpinInv'
  <2>1. CASE ui' = LoadingLists(state) /\ Await("lists", None, stored, Lists)
    <3>1. \A s \in DOMAIN Spinners : Turns(ui', s) => Turns(ui, s) \/ s = "loading"
      BY <1>1, <2>1, SpinnerNames DEF LoadingLists, Turns
    <3>2. "lists" \in Spinners["loading"]
      BY SpinnerNames
    <3> QED
      BY <2>1, <3>1, <3>2, SpinAwaits
  <2>2. CASE ui' = NeedsAuth(state) /\ calls' = calls
    <3>1. \A s \in DOMAIN Spinners : Turns(ui', s) => Turns(ui, s)
      BY <1>1, <2>2, SpinnerNames DEF NeedsAuth, Turns
    <3> QED
      BY <2>2, <3>1, SpinStays
  <2> QED
    BY <1>1, <2>1, <2>2 DEF LoadAdminData
<1>2. \A s \in DOMAIN Spinners : Turns(AdminState, s) => s = "loading"
  <2>1. DOMAIN AdminState = {"page", "mounted", "loading", "needsAdminAuth", "error", "success",
                             "status", "flagged", "amendments", "rejecting", "database"}
    BY DEF AdminState
  <2> QED
    BY <2>1, SpinnerNames DEF Turns
<1> QED
  BY <1>1, <1>2 DEF AdminMount, RefreshRecords, HandleSaveDbConfig

\* The other clicks of the console.
LEMMA SpinConsoleClicks ==
    ASSUME CallsInv, SpinInv,
           \/ HandleAdminLoginSubmit \/ HandleStatusChange \/ HandleResolveDuplicate
           \/ HandleSuspendAndResolve \/ OpenDbModal \/ CloseDbModal
    PROVE  SpinInv'
<1>1. CASE HandleAdminLoginSubmit
  <2>1. \A s \in DOMAIN Spinners : Turns(ui', s) => Turns(ui, s) \/ "admin login" \in Spinners[s]
    BY <1>1, SpinnerNames DEF HandleAdminLoginSubmit, Turns
  <2> QED
    BY <1>1, <2>1, SpinAwaits DEF HandleAdminLoginSubmit
<1>2. CASE HandleStatusChange \/ HandleResolveDuplicate \/ HandleSuspendAndResolve
  <2>1. ui' = ui /\ \E by, arg, f : Await(by, arg, stored, {f})
    BY <1>2 DEF HandleStatusChange, HandleResolveDuplicate, HandleSuspendAndResolve, AdminCalls
  <2> QED
    BY <2>1, SpinAwaits
<1>3. CASE OpenDbModal \/ CloseDbModal
  <2>1. calls' = calls /\ \A s \in DOMAIN Spinners : Turns(ui', s) => Turns(ui, s)
    BY <1>3, SpinnerNames DEF OpenDbModal, CloseDbModal, AdminClicked, Turns
  <2> QED
    BY <2>1, SpinStays
<1> QED
  BY <1>1, <1>2, <1>3

\* The lists are asked for next.
LEMMA SpinReloads ==
    ASSUME CallsInv, SpinInv, NEW c \in DOMAIN calls, calls[c] # NoCall, NEW state, NEW token,
           Sets(c, LoadingLists(state)),
           calls' = [calls EXCEPT ![c].by = "lists", ![c].token = token,
                                  ![c].got = [f \in Lists |-> Waiting]],
           \A s \in DOMAIN Spinners : Turns(state, s) => Turns(ui, s),
           \A s \in DOMAIN Spinners : calls[c].by \in Spinners[s] => s = "loading"
    PROVE  SpinInv'
<1> DEFINE next == [calls[c] EXCEPT !.by = "lists", !.token = token,
                                    !.got = [f \in Lists |-> Waiting]]
           shown == LoadingLists(state)
<1>1. CallOK(calls[c], world)
  BY DEF CallsInv
<1>2. next.by = "lists" /\ next.mounted = calls[c].mounted
  BY <1>1 DEF CallOK, CallFields
<1>3. calls' = [calls EXCEPT ![c] = next] /\ Sets(c, shown)
  OBVIOUS
<1>4. \A s \in DOMAIN Spinners : Turns(shown, s) => Turns(ui, s) \/ s = "loading"
  BY SpinnerNames DEF LoadingLists, Turns
<1>5. "lists" \in Spinners["loading"]
  BY SpinnerNames
<1> HIDE DEF next, shown
<1>6. \A s \in DOMAIN Spinners :
          /\ Turns(shown, s) => Turns(ui, s) \/ next.by \in Spinners[s]
          /\ calls[c].by \in Spinners[s] => next.by \in Spinners[s]
  BY <1>2, <1>4, <1>5
<1> QED
  BY <1>2, <1>3, <1>6, SpinGoesOn

\* What the console asked for is answered.
LEMMA SpinConsoleAnswered ==
    ASSUME CallsInv, SpinInv, NEW c \in DOMAIN calls, calls[c] # NoCall,
           \/ LoadAdminDataResumes(c) \/ HandleAdminLoginSubmitResumes(c)
           \/ HandleStatusChangeResumes(c) \/ HandleSuspendAndResolveResumes(c)
           \/ HandleResolveDuplicateResumes(c)
    PROVE  SpinInv'
<1>1. CASE LoadAdminDataResumes(c)
  <2> DEFINE state == LoadedLists(c)
  <2>1. \A s \in DOMAIN Spinners : Turns(state, s) => Turns(ui, s) /\ s # "loading"
    BY SpinnerNames DEF LoadedLists, Turns
  <2>2. \A s \in DOMAIN Spinners : calls[c].by \in Spinners[s] => s = "loading"
    BY <1>1, SpinnerNames DEF LoadAdminDataResumes, Resumes
  <2> HIDE DEF state
  <2> QED
    BY <1>1, <2>1, <2>2, SpinEnds DEF LoadAdminDataResumes, state
<1>2. CASE HandleAdminLoginSubmitResumes(c)
  <2>0. \A s \in DOMAIN Spinners : calls[c].by \in Spinners[s] => s = "loading"
    BY <1>2, SpinnerNames DEF HandleAdminLoginSubmitResumes, Resumes
  <2>1. CASE \E token :
                /\ Sets(c, LoadingLists([ui EXCEPT !.success = TRUE]))
                /\ calls' = [calls EXCEPT ![c].by = "lists", ![c].token = token,
                                          ![c].got = [f \in Lists |-> Waiting]]
    <3> DEFINE state == [ui EXCEPT !.success = TRUE]
    <3>1. \A s \in DOMAIN Spinners : Turns(state, s) => Turns(ui, s)
      BY SpinnerNames DEF Turns
    <3> HIDE DEF state
    <3> QED
      BY <2>0, <2>1, <3>1, SpinReloads DEF state
  <2>2. CASE Sets(c, [ui EXCEPT !.error = TRUE, !.loading = FALSE]) /\ End(c)
    <3> DEFINE state == [ui EXCEPT !.error = TRUE, !.loading = FALSE]
    <3>1. \A s \in DOMAIN Spinners : Turns(state, s) => Turns(ui, s) /\ s # "loading"
      BY SpinnerNames DEF Turns
    <3> HIDE DEF state
    <3> QED
      BY <2>0, <2>2, <3>1, SpinEnds DEF state
  <2> QED
    BY <1>2, <2>1, <2>2 DEF HandleAdminLoginSubmitResumes
<1>3. CASE /\ \A s \in DOMAIN Spinners : calls[c].by \notin Spinners[s]
           /\ Sets(c, [ui EXCEPT !.error = TRUE]) /\ End(c)
  <2> DEFINE state == [ui EXCEPT !.error = TRUE]
  <2>1. \A s \in DOMAIN Spinners : Turns(state, s) => Turns(ui, s)
    BY SpinnerNames DEF Turns
  <2> HIDE DEF state
  <2> QED
    BY <1>3, <2>1, SpinEnds DEF state
<1>4. CASE HandleStatusChangeResumes(c) \/ HandleResolveDuplicateResumes(c)
  <2>0. \A s \in DOMAIN Spinners : calls[c].by \notin Spinners[s]
    BY <1>4, SpinnerNames DEF HandleStatusChangeResumes, HandleResolveDuplicateResumes,
       AdminResumes, Resumes
  <2> DEFINE state == [ui EXCEPT !.success = TRUE]
  <2>1. \A s \in DOMAIN Spinners : Turns(state, s) => Turns(ui, s)
    BY SpinnerNames DEF Turns
  <2>2. \/ ReloadAdminData(c, state)
        \/ Sets(c, [ui EXCEPT !.error = TRUE]) /\ End(c)
    BY <1>4 DEF HandleStatusChangeResumes, HandleResolveDuplicateResumes, AdminResumes
  <2> HIDE DEF state
  <2>3. CASE Sets(c, NeedsAuth(state)) /\ End(c)
    <3> DEFINE shown == NeedsAuth(state)
    <3>1. \A s \in DOMAIN Spinners : Turns(shown, s) => Turns(ui, s)
      BY <2>1, SpinnerNames DEF NeedsAuth, Turns
    <3> HIDE DEF shown
    <3> QED
      BY <2>0, <2>3, <3>1, SpinEnds DEF shown
  <2>4. CASE /\ Sets(c, LoadingLists(state))
             /\ calls' = [calls EXCEPT ![c].by = "lists", ![c].token = stored,
                                       ![c].got = [f \in Lists |-> Waiting]]
    BY <2>0, <2>1, <2>4, SpinReloads
  <2> QED
    BY <1>3, <2>0, <2>2, <2>3, <2>4 DEF ReloadAdminData
<1>5. CASE HandleSuspendAndResolveResumes(c)
  <2>0. \A s \in DOMAIN Spinners : calls[c].by \notin Spinners[s]
    BY <1>5, SpinnerNames DEF HandleSuspendAndResolveResumes, Resumes
  <2>1. CASE AwaitNext(c, "resolve", {"adminResolveDuplicate"}) /\ ui' = ui
    <3>1. Sets(c, ui)
      BY <2>1 DEF Sets
    <3> QED
      BY <2>0, <2>1, <3>1, SpinNext
  <2> QED
    BY <1>3, <1>5, <2>0, <2>1 DEF HandleSuspendAndResolveResumes
<1> QED
  BY <1>1, <1>2, <1>4, <1>5

\* Nothing of the page changes.
LEMMA SpinIdles ==
    ASSUME CallsInv, SpinInv, ui' = ui, calls' = calls
    PROVE  SpinInv'
  BY SpinStays

\* A call of the page is settled, or the API begins to work on it.
LEMMA SpinSettled ==
    ASSUME CallsInv, SpinInv, ui' = ui, NEW c \in DOMAIN calls, Settles(c)
    PROVE  SpinInv'
<1>1. calls' = calls \/ \E f, answer : calls' = [calls EXCEPT ![c].got[f] = answer]
  BY DEF Settles, Refuse, Read, Write, Answer, RequestOTP, RegisterUser, LoginUser, GetMyIdentity,
     GenerateQRToken, VerifyQRToken, GetPendingVerificationRequests, RespondVerificationRequest,
     CreateVerificationRequest, GetDIDDocument, GetCredentialW3C, AdminListIdentities,
     AdminUpdateStatus, AdminListDuplicates, AdminResolveDuplicate, AdminListAudit,
     AdminListAmendments, UploadIdentityDocument, ListMyDocuments, CreateAmendmentRequest,
     ListMyAmendments
<1> QED
  BY <1>1, SpinSettles, SpinIdles DEF Settles

\* The API goes on with an answer.
LEMMA SpinAnswerGoesOn ==
    ASSUME CallsInv, SpinInv, Answered
    PROVE  SpinInv'
<1>1. ui' = ui
  BY DEF Answered, web
<1>2. CASE calls' = calls
  BY <1>1, <1>2, SpinIdles
<1>3. CASE \E c \in DOMAIN calls : calls[c] # NoCall /\ AnswersCall(c)
  BY <1>1, <1>3, SpinSettles DEF AnswersCall
<1> QED
  BY <1>2, <1>3 DEF Answered, AnswersNobody

\* Every step keeps the calls behind the waits.
LEMMA SpinStep ==
    ASSUME CallsInv, SpinInv, [Next]_vars
    PROVE  SpinInv'
<1>1. CASE Progress
  <2>1. CASE Restore /\ UNCHANGED <<world, feed, calls, opening>>
    BY <2>1, SpinIdles DEF Restore
  <2>2. CASE Mounts
    BY <2>2, SpinMounts, SpinVerifies, SpinLoads, SpinConsoleLoads DEF Mounts
  <2>3. CASE Settled
    BY <2>3, SpinSettled DEF Settled, web
  <2>4. CASE Resumed
    <3>1. PICK c \in DOMAIN calls :
              /\ calls[c] # NoCall
              /\ \/ HandleSubmitResumes(c)
                 \/ HandleRequestOtpResumes(c) \/ HandleFinalSubmitResumes(c)
                 \/ HandleVerifyResumes(c)
                 \/ HandleDemoRecruiterAuthResumes(c) \/ HandleCreateRequestResumes(c)
                 \/ LoadIdentityResumes(c) \/ LoadRequestsResumes(c)
                 \/ LoadHistoryResumes(c) \/ LoadQRResumes(c)
                 \/ RefreshResumes(c) \/ HandleConsentResumes(c) \/ ConsentRefreshResumes(c)
                 \/ HandleGenerateCustomQRResumes(c)
                 \/ HandleInspectW3CResumes(c) \/ HandleViewDIDResumes(c)
                 \/ HandleSubmitAmendmentResumes(c) \/ FileRead(c) \/ HandleFileUploadResumes(c)
                 \/ LoadAdminDataResumes(c) \/ HandleAdminLoginSubmitResumes(c)
                 \/ HandleStatusChangeResumes(c)
                 \/ HandleSuspendAndResolveResumes(c) \/ HandleResolveDuplicateResumes(c)
      BY <2>4 DEF Resumed
    <3> QED
      BY <3>1, SpinSignedIn, SpinWizardAnswered, SpinVerified, SpinOrganizationAnswered,
         SpinLoadAnswered, SpinAnswered, SpinConsoleAnswered
  <2>5. CASE Subscribe \/ Answered
    BY <2>5, SpinOrganization, SpinAnswerGoesOn
  <2> QED
    BY <1>1, <2>1, <2>2, <2>3, <2>4, <2>5 DEF Progress
<1>2. CASE Happens
  <2>1. CASE OrgFeedOpens \/ OrgFeedBreaks
    BY <2>1, SpinIdles DEF OrgFeedOpens, OrgFeedBreaks, web
  <2> QED
    BY <1>2, <2>1, SpinOrganization, SpinLoads, SpinDashboardStays DEF Happens
<1>3. CASE Clicks
  BY <1>3, SpinSignsIn, SpinMoves, SpinWizard, SpinVerifies, SpinOrganization,
     SpinDashboardClicks, SpinDashboardCalls, SpinConsoleLoads, SpinConsoleClicks DEF Clicks
<1>4. CASE Moves
  BY <1>4, SpinMoves, SpinVerifies DEF Moves
<1>5. CASE OthersAct \/ Desktop \/ UNCHANGED vars
  BY <1>5, SpinIdles DEF OthersAct, Desktop, vars, web
<1> QED
  BY <1>1, <1>2, <1>3, <1>4, <1>5 DEF Next
===============================================================================
