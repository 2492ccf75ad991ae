------------------------------ MODULE ApiClient ------------------------------
(***************************************************************************)
(* The API client of the web application (lib/api.ts), and the calls the   *)
(* event handlers of the pages have under way.  Each function of api.ts is *)
(* one fetch: it returns what the API answered, or throws, when the API    *)
(* refused, when the network failed before the request arrived, and when   *)
(* it failed after the request took effect.                                *)
(*                                                                         *)
(* A handler runs up to an await, and goes on, in another step, once what  *)
(* it awaits is settled: meanwhile anything else may run.  calls[c].by     *)
(* says where it goes on, calls[c].got what the functions it awaits        *)
(* returned.  A handler outlives the page that started it (mounted).       *)
(***************************************************************************)
EXTENDS WebBackend

CONSTANTS MaxCalls  \* bound on the handlers under way

ASSUME ApiClientAssumption == MaxCalls \in Nat \ {0}

VARIABLES calls

NoCall == [by |-> "none", mounted |-> FALSE]
Waiting == [is |-> "waiting"]
Threw == [is |-> "threw"]
Ok(value) == [is |-> "ok", value |-> value]

Call(by, arg, token, functions) ==
    [by |-> by, arg |-> arg, token |-> token, mounted |-> TRUE,
     got |-> [f \in functions |-> Waiting]]

Free == {c \in DOMAIN calls : calls[c] = NoCall}

\* A handler starts and calls the functions.
Await(by, arg, token, functions) ==
    \E c \in Free :
        /\ \A other \in Free : c <= other
        /\ calls' = [calls EXCEPT ![c] = Call(by, arg, token, functions)]

\* The handler goes on to its next await, or ends.
AwaitNext(c, by, functions) ==
    calls' = [calls EXCEPT ![c].by = by, ![c].got = [f \in functions |-> Waiting]]
Ended(c) == [calls EXCEPT ![c] = NoCall]
End(c) == calls' = Ended(c)

\* Everything the handler awaits there is settled.
Resumes(c, by) ==
    /\ calls[c].by = by
    /\ Waiting \notin {calls[c].got[f] : f \in DOMAIN calls[c].got}

Fulfilled(c, f) == calls[c].got[f] # Threw
Value(c, f) == calls[c].got[f].value

Unmounted(handlers) == [c \in DOMAIN handlers |-> [handlers[c] EXCEPT !.mounted = FALSE]]

-----------------------------------------------------------------------------
(* What the API makes of a call. *)

Asked(c, f) == f \in DOMAIN calls[c].got /\ calls[c].got[f] = Waiting

\* The answer that the API works on for the call, if it has begun.
AnsweringFor(c) == {x \in world.answering : x.by = c}

\* Who may call what, and when the service agrees: a new email with the code
\* that was sent to it, an account, an identity, a token not spent, a request
\* not answered.
Accepts(c, f) ==
    LET arg == calls[c].arg  token == calls[c].token IN
    CASE f = "registerUser" ->
             arg.email \in world.codes \ world.accounts /\ arg.otp = arg.email
      [] f = "loginUser" -> arg \in world.accounts
      [] f = "getMyIdentity" -> token \in world.accounts \cap {Holder, Newcomer}
      [] f = "verifyQRToken" -> arg \notin world.spent
      [] f = "respondVerificationRequest" ->
             /\ token = Holder
             /\ world.consent[arg.request] = "PENDING" \/ AnsweringFor(c) # {}
      [] f = "createVerificationRequest" -> token \in {Recruiter, Officer} /\ Unused # {}
      [] f = "createAmendmentRequest" -> token = Holder /\ Len(world.amendments) < MaxAmendments
      [] f = "uploadIdentityDocument" -> token = Holder
      [] f \in {"adminListIdentities", "adminUpdateStatus", "adminListDuplicates",
                "adminResolveDuplicate", "adminListAudit", "adminListAmendments",
                "adminReviewAmendment"} -> token = Officer
      [] OTHER -> TRUE

\* The API does what it is asked and answers; the answer may be lost.
Handles(c, f) == Asked(c, f) /\ Accepts(c, f)

Answer(c, f, value) ==
    \E outcome \in {Ok(value), Threw} : calls' = [calls EXCEPT ![c].got[f] = outcome]

\* The API refuses the request, or never gets it, or the connection is lost:
\* nobody waits for an answer it is working on.
Refuse(c) ==
    /\ \E f \in DOMAIN calls[c].got :
           /\ Asked(c, f)
           /\ calls' = [calls EXCEPT ![c].got[f] = Threw]
    /\ world' = [world EXCEPT !.answering =
                     {[x EXCEPT !.by = IF @ = c THEN 0 ELSE @] : x \in @}]

\* What getMyIdentity has for a profile that the API could not read.
NullProfile == [field \in Fields |-> "null"]

\* The step fails a call that the API would have accepted, or lets it find no
\* profile.
Fault(c) ==
    \E f \in DOMAIN calls[c].got :
        /\ Handles(c, f)
        /\ \/ calls'[c].got[f] = Threw
           \/ f = "getMyIdentity" /\ calls'[c].got[f].value.profile = NullProfile

Read(c, f, value) ==
    /\ Handles(c, f)
    /\ Answer(c, f, value)
    /\ UNCHANGED world

Write(c, f, after, value) ==
    /\ Handles(c, f)
    /\ world' = after
    /\ Answer(c, f, value)

RequestOTP(c) ==
    Write(c, "requestOTP", [world EXCEPT !.codes = @ \cup {calls[c].arg.email}], None)

RegisterUser(c) ==
    Write(c, "registerUser",
          [world EXCEPT !.accounts = @ \cup {calls[c].arg.email},
                        !.codes = @ \ {calls[c].arg.email}],
          calls[c].arg.email)

\* The answer has a token for the account, and its role.
LoginUser(c) == Read(c, "loginUser", calls[c].arg)

\* An error of the profile repository is discarded, and the profile null.
GetMyIdentity(c) ==
    \E profile \in {IF calls[c].token = Holder THEN world.profile
                    ELSE [field \in Fields |-> "given"], NullProfile} :
        Read(c, "getMyIdentity", [account |-> calls[c].token, profile |-> profile])

\* The answer stands for the token: what it was asked for.
GenerateQRToken(c) == Read(c, "generateQRToken", calls[c].arg)

\* The token may stay unspent: an error of MarkTokenUsed is discarded, and
\* another verification may have read it as unused before it was marked.
VerifyQRToken(c) ==
    \E spent \in {world.spent, world.spent \cup {calls[c].arg}} :
        Write(c, "verifyQRToken", [world EXCEPT !.spent = spent], calls[c].arg)

\* Every request of the identity is listed, those answered too.
GetPendingVerificationRequests(c) ==
    Read(c, "getPendingVerificationRequests",
         IF calls[c].token = Holder THEN Requests \ Unused ELSE {})

\* The request is tested; AnswerStored is what comes then, and
\* AnswersCall the end.
RespondVerificationRequest(c) ==
    /\ Handles(c, "respondVerificationRequest")
    /\ AnsweringFor(c) = {}
    /\ Tested(c, calls[c].arg.request, calls[c].arg.approved)
    /\ UNCHANGED calls

CreateVerificationRequest(c) ==
    Write(c, "createVerificationRequest", Created(NextRequest), NextRequest)

GetDIDDocument(c) == Read(c, "getDIDDocument", None)
GetCredentialW3C(c) == Read(c, "getCredentialW3C", None)

AdminListIdentities(c) == Read(c, "adminListIdentities", world.status)

AdminUpdateStatus(c) ==
    Write(c, "adminUpdateStatus",
          [world EXCEPT !.status = calls[c].arg.status,
                        !.suspended = @ \/ calls[c].arg.status = "SUSPENDED"],
          None)

\* Whether the flag is still open.
AdminListDuplicates(c) == Read(c, "adminListDuplicates", world.flag = "PENDING_REVIEW")

AdminResolveDuplicate(c) ==
    Write(c, "adminResolveDuplicate", [world EXCEPT !.flag = calls[c].arg.resolution], None)

AdminListAudit(c) == Read(c, "adminListAudit", None)

UploadIdentityDocument(c) ==
    Write(c, "uploadIdentityDocument", [world EXCEPT !.documents = @ \cup {calls[c].arg}],
          calls[c].arg)

ListMyDocuments(c) ==
    Read(c, "listMyDocuments", IF calls[c].token = Holder THEN world.documents ELSE {})

CreateAmendmentRequest(c) ==
    Write(c, "createAmendmentRequest",
          [world EXCEPT !.amendments =
              Append(@, PendingAmendment(calls[c].arg.changes, calls[c].arg.documents))],
          Len(world.amendments) + 1)

ListMyAmendments(c) ==
    Read(c, "listMyAmendments",
         IF calls[c].token = Holder THEN DOMAIN world.amendments ELSE {})

\* Every amendment is listed, whatever its status.
AdminListAmendments(c) ==
    Read(c, "adminListAmendments", [i \in DOMAIN world.amendments |-> world.amendments[i].status])

AdminReviewAmendment(c) ==
    Write(c, "adminReviewAmendment", Reviewed(calls[c].arg.id, calls[c].arg.approved), None)

\* The end of an answer that nobody in the browser waits for.
AnswersNobody ==
    /\ \E x \in AnsweringFor(0) : AnswerPublished(x)
    /\ UNCHANGED calls

\* The end of an answer that the call gave.
AnswersCall(c) ==
    /\ Asked(c, "respondVerificationRequest")
    /\ LET x == [by |-> c, request |-> calls[c].arg.request,
                 approved |-> calls[c].arg.approved, stored |-> TRUE]
       IN x \in world.answering /\ AnswerPublished(x)
    /\ calls' = [calls EXCEPT ![c].got["respondVerificationRequest"] = Ok(None)]

\* A call of a page is settled, or the API begins to work on it.
Settles(c) ==
    /\ calls[c] # NoCall
    /\ \/ RequestOTP(c) \/ RegisterUser(c) \/ LoginUser(c) \/ GetMyIdentity(c)
       \/ GenerateQRToken(c) \/ VerifyQRToken(c)
       \/ GetPendingVerificationRequests(c) \/ RespondVerificationRequest(c)
       \/ CreateVerificationRequest(c) \/ GetDIDDocument(c) \/ GetCredentialW3C(c)
       \/ AdminListIdentities(c) \/ AdminUpdateStatus(c) \/ AdminListDuplicates(c)
       \/ AdminResolveDuplicate(c) \/ AdminListAudit(c) \/ AdminListAmendments(c)
       \/ UploadIdentityDocument(c) \/ ListMyDocuments(c)
       \/ CreateAmendmentRequest(c) \/ ListMyAmendments(c)
       \/ Refuse(c)
=============================================================================
