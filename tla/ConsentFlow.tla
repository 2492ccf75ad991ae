---------------------------- MODULE ConsentFlow ----------------------------
(***************************************************************************)
(* VerificationService: an organisation asks for claims about an identity, *)
(* the owner approves or denies, and an approval produces a result.        *)
(*                                                                         *)
(* RespondRequest (service/verification_service.go) is a sequence of       *)
(* repository calls without a lock or a transaction; the handler publishes *)
(* the outcome when it returns.  It is split at every repository call that *)
(* another answer, or an administrator, may interleave with:               *)
(*   GetRequestByID and the three tests; the two reads; CreateResult;      *)
(*   UpdateRequestStatus; the audit record and the events.                 *)
(* A call that fails one of the tests writes nothing and is a stutter.     *)
(*                                                                         *)
(* expires_at is stored and never read by the service, so requests do not  *)
(* expire here either.                                                     *)
(***************************************************************************)
EXTENDS Naturals

CONSTANTS
    Clients,       \* the owners' sessions: each has one answer under way
    Requests,      \* the requests that may be created
    Identities,    \* the identities they are about, and that answer them
    ScopeChoices,  \* the sets of scopes an organisation may ask for
    IdentityStatuses, \* the statuses an administrator may set
    StoreMayFail,  \* TRUE: a repository call may return an error (PostgreSQL)
    NoRequest      \* the value of requests[r] before r is created

ASSUME ConsentAssumption ==
    /\ StoreMayFail \in BOOLEAN
    /\ "ACTIVE" \in IdentityStatuses

RequestStatuses == {"PENDING", "APPROVED", "DENIED"}

\* The claims one requested scope adds to the result; an unknown one adds none.
ClaimsOf(scope) ==
    CASE scope = "identity_valid"               -> {"identity_valid"}
      [] scope \in {"name_match", "legal_name"} -> {"legal_name"}
      [] scope \in {"dob", "date_of_birth"}     -> {"date_of_birth"}
      [] scope = "phone"                        -> {"phone"}
      [] scope = "email"                        -> {"email"}
      [] scope = "address"                      ->
            {"address_line1", "city", "state", "postal_code", "country"}
      [] OTHER                                  -> {}

ClaimNames == UNION {ClaimsOf(sc) : sc \in
    {"identity_valid", "legal_name", "dob", "phone", "email", "address"}}

\* Everything but identity_valid is read from the profile.
Disclose(scopes, hasProfile) ==
    (UNION {ClaimsOf(sc) : sc \in scopes})
        \cap (IF hasProfile THEN ClaimNames ELSE {"identity_valid"})

Request == [identity : Identities, scopes : ScopeChoices, status : RequestStatuses]

ASSUME NoRequestAssumption == NoRequest \notin Request

AuditEvent == [action : {"VERIFICATION_REQUESTED", "VERIFICATION_APPROVED",
                         "VERIFICATION_DENIED", "IDENTITY_STATUS_UPDATED"},
               target : Requests \cup Identities]

VARIABLES
    requests,   \* verification_requests
    results,    \* verification_results, as a set
    status,     \* identities.status
    audit,      \* audit_events, as a set
    call,       \* call[c]: the RespondRequest call of client c, or Idle
    creating,   \* the requests stored whose creation is not announced yet
    announced,  \* the requests a CONSENT_REQUEST_CREATED event was published for
    responded   \* the answers a CONSENT_REQUEST_RESPONDED event was published for

vars == <<requests, results, status, audit, call, creating, announced, responded>>

(***************************************************************************)
(* A call under way: its next step, the request, the identity of the       *)
(* caller and the decision; the claims read, and whether the identity was  *)
(* then ACTIVE (the value of the claim identity_valid); and, as history,   *)
(* whether it was ACTIVE at some instant of the call so far.               *)
(***************************************************************************)
Call == [pc : {"claims", "result", "settle", "finish"},
         request : Requests, identity : Identities, approved : BOOLEAN,
         claims : SUBSET ClaimNames, valid : BOOLEAN, active : BOOLEAN]

Idle == [pc |-> "idle"]

Result == [request : Requests, identity : Identities, approved : BOOLEAN,
           claims : SUBSET ClaimNames, valid : BOOLEAN, active : BOOLEAN]

Response == [client : Clients, request : Requests, approved : BOOLEAN]

TypeOK ==
    /\ requests \in [Requests -> Request \cup {NoRequest}]
    /\ results \subseteq Result
    /\ status \in [Identities -> IdentityStatuses]
    /\ audit \subseteq AuditEvent
    /\ call \in [Clients -> Call \cup {Idle}]
    /\ creating \subseteq Requests
    /\ announced \subseteq Requests
    /\ responded \subseteq Response
    /\ \A c \in Clients : call[c] # Idle => requests[call[c].request] # NoRequest

Init ==
    /\ requests = [r \in Requests |-> NoRequest]
    /\ results = {}
    /\ status = [i \in Identities |-> "ACTIVE"]
    /\ audit = {}
    /\ call = [c \in Clients |-> Idle]
    /\ creating = {}
    /\ announced = {}
    /\ responded = {}

\* auditSvc.Record: its error is discarded by every caller.
Record(action, target) ==
    \/ audit' = audit \cup {[action |-> action, target |-> target]}
    \/ StoreMayFail /\ audit' = audit

Exists(r) == requests[r] # NoRequest

Decision(approved) == IF approved THEN "APPROVED" ELSE "DENIED"

DecisionAction(approved) ==
    IF approved THEN "VERIFICATION_APPROVED" ELSE "VERIFICATION_DENIED"
-----------------------------------------------------------------------------
(* The organisation's side                                                 *)

CreateRequest(r, i, scopes) ==
    /\ ~Exists(r)
    /\ requests' = [requests EXCEPT ![r] =
                      [identity |-> i, scopes |-> scopes, status |-> "PENDING"]]
    /\ creating' = creating \cup {r}
    /\ UNCHANGED <<results, status, audit, call, announced, responded>>

\* The insert took effect: audited and announced, unless its reply was lost.
AnnounceRequest(r) ==
    /\ r \in creating
    /\ creating' = creating \ {r}
    /\ \/ announced' = announced \cup {r} /\ Record("VERIFICATION_REQUESTED", r)
       \/ StoreMayFail /\ UNCHANGED <<announced, audit>>
    /\ UNCHANGED <<requests, results, status, call, responded>>

-----------------------------------------------------------------------------
(* RespondRequest                                                          *)

\* Mutation: whose request it is is not tested.
LoadRequestAnyCaller(c, r, i, approved) ==
    /\ call[c] = Idle
    /\ Exists(r) /\ requests[r].status = "PENDING"
    /\ call' = [call EXCEPT ![c] =
                  [pc |-> IF approved THEN "claims" ELSE "settle",
                   request |-> r, identity |-> i, approved |-> approved,
                   claims |-> {}, valid |-> FALSE, active |-> status[i] = "ACTIVE"]]
    /\ UNCHANGED <<requests, results, status, audit, creating, announced, responded>>

\* Mutation: the status of the request is not tested.
LoadRequestAnyStatus(c, r, i, approved) ==
    /\ call[c] = Idle
    /\ Exists(r) /\ requests[r].identity = i
    /\ call' = [call EXCEPT ![c] =
                  [pc |-> IF approved THEN "claims" ELSE "settle",
                   request |-> r, identity |-> i, approved |-> approved,
                   claims |-> {}, valid |-> FALSE, active |-> status[i] = "ACTIVE"]]
    /\ UNCHANGED <<requests, results, status, audit, creating, announced, responded>>

\* The request exists, is the caller's and is pending; the caller's own
\* status is not consulted.
LoadRequest(c, r, i, approved) ==
    /\ call[c] = Idle
    /\ Exists(r)
    /\ requests[r].identity = i
    /\ requests[r].status = "PENDING"
    /\ call' = [call EXCEPT ![c] =
                  [pc |-> IF approved THEN "claims" ELSE "settle",
                   request |-> r, identity |-> i, approved |-> approved,
                   claims |-> {}, valid |-> FALSE, active |-> status[i] = "ACTIVE"]]
    /\ UNCHANGED <<requests, results, status, audit, creating, announced, responded>>

\* Both reads may fail without the call failing: the profile is then missing,
\* and the identity not valid.
ReadClaims(c) ==
    /\ call[c].pc = "claims"
    /\ \E hasProfile \in BOOLEAN,
          valid \in {status[call[c].identity] = "ACTIVE"}
                       \cup (IF StoreMayFail THEN {FALSE} ELSE {}) :
         call' = [call EXCEPT
           ![c].pc = "result",
           ![c].claims = Disclose(requests[call[c].request].scopes, hasProfile),
           ![c].valid = valid]
    /\ UNCHANGED <<requests, results, status, audit, creating, announced, responded>>

\* Mutation: the result is left to a later step of the client.
CreateResultForgotten(c) ==
    /\ call[c].pc = "result"
    /\ call' = [call EXCEPT ![c].pc = "settle"]
    /\ UNCHANGED <<requests, results, status, audit, creating, announced, responded>>

CreateResult(c) ==
    /\ call[c].pc = "result"
    /\ results' = results \cup
         {[request |-> call[c].request, identity |-> call[c].identity,
           approved |-> call[c].approved, claims |-> call[c].claims,
           valid |-> call[c].valid, active |-> call[c].active]}
    /\ call' = [call EXCEPT ![c].pc = "settle"]
    /\ UNCHANGED <<requests, status, audit, creating, announced, responded>>

\* Mutation: the amendment status REJECTED is written for a denial.
UpdateRequestStatusRejected(c) ==
    /\ call[c].pc = "settle"
    /\ requests' = [requests EXCEPT ![call[c].request].status =
                      IF call[c].approved THEN "APPROVED" ELSE "REJECTED"]
    /\ call' = [call EXCEPT ![c].pc = "finish"]
    /\ UNCHANGED <<results, status, audit, creating, announced, responded>>

\* Mutation: the error of the update is discarded.
UpdateRequestStatusUnchecked(c) ==
    /\ call[c].pc = "settle"
    /\ \/ requests' = [requests EXCEPT ![call[c].request].status =
                         Decision(call[c].approved)]
       \/ StoreMayFail /\ requests' = requests
    /\ call' = [call EXCEPT ![c].pc = "finish"]
    /\ UNCHANGED <<results, status, audit, creating, announced, responded>>

\* Unconditional: it does not test that the request is still pending.
UpdateRequestStatus(c) ==
    /\ call[c].pc = "settle"
    /\ requests' = [requests EXCEPT ![call[c].request].status =
                      Decision(call[c].approved)]
    /\ call' = [call EXCEPT ![c].pc = "finish"]
    /\ UNCHANGED <<results, status, audit, creating, announced, responded>>

\* The service audits the decision, the handler publishes and answers PROCESSED.
Finish(c) ==
    /\ call[c].pc = "finish"
    /\ Record(DecisionAction(call[c].approved), call[c].request)
    /\ responded' = responded \cup
         {[client |-> c, request |-> call[c].request, approved |-> call[c].approved]}
    /\ call' = [call EXCEPT ![c] = Idle]
    /\ UNCHANGED <<requests, results, status, creating, announced>>

\* CreateResult or UpdateRequestStatus reports an error, whether or not the
\* statement took effect, and the call ends.
Fail(c) ==
    /\ StoreMayFail
    /\ call[c].pc \in {"result", "settle", "finish"}
    /\ call' = [call EXCEPT ![c] = Idle]
    /\ UNCHANGED <<requests, results, status, audit, creating, announced, responded>>

-----------------------------------------------------------------------------
(* IdentityService.UpdateStatus by an administrator.                       *)
UpdateStatus(i, st) ==
    /\ status' = [status EXCEPT ![i] = st]
    /\ call' = [c \in Clients |->
                  IF call[c] # Idle /\ call[c].identity = i
                    THEN [call[c] EXCEPT !.active = @ \/ st = "ACTIVE"]
                    ELSE call[c]]
    /\ Record("IDENTITY_STATUS_UPDATED", i)
    /\ UNCHANGED <<requests, results, creating, announced, responded>>

RespondRequest(c) ==
    \/ ReadClaims(c)
    \/ CreateResult(c)
    \/ UpdateRequestStatus(c)
    \/ Finish(c)

Next ==
    \/ \E r \in Requests, i \in Identities, scopes \in ScopeChoices :
         CreateRequest(r, i, scopes)
    \/ \E r \in Requests : AnnounceRequest(r)
    \/ \E c \in Clients, r \in Requests, i \in Identities, approved \in BOOLEAN :
         LoadRequest(c, r, i, approved)
    \/ \E c \in Clients : RespondRequest(c) \/ Fail(c)
    \/ \E i \in Identities, st \in IdentityStatuses : UpdateStatus(i, st)

Spec == Init /\ [][Next]_vars

-----------------------------------------------------------------------------
(* Properties                                                              *)

(***************************************************************************)
(* An APPROVED request has a result (CreateResult comes first, and neither *)
(* an error nor an overlapping answer takes the result away).              *)
(***************************************************************************)
ApprovedHasResult ==
    \A r \in Requests : Exists(r) /\ requests[r].status = "APPROVED" =>
        \E res \in results : res.request = r

(***************************************************************************)
(* Every result was authorised: the owner of the request approved it, its  *)
(* claims come from the scopes asked for, and identity_valid is true only  *)
(* if the identity was ACTIVE at an instant of the answering call.         *)
(***************************************************************************)
ResultsAuthorised ==
    \A res \in results :
        /\ Exists(res.request)
        /\ requests[res.request].identity = res.identity
        /\ res.approved
        /\ res.claims \subseteq UNION {ClaimsOf(sc) : sc \in requests[res.request].scopes}
        /\ res.valid => res.active

(***************************************************************************)
(* A CONSENT_REQUEST_RESPONDED event tells the truth when it is published: *)
(* the request is settled, and if it says approved there is a result.      *)
(***************************************************************************)
EventsFollowDecision ==
    \A e \in responded :
        /\ requests[e.request].status # "PENDING"
        /\ e.approved => \E res \in results : res.request = e.request

(***************************************************************************)
(* A result exists only "upon approval": a request settled as DENIED,      *)
(* with no answer under way, has none.                                     *)
(***************************************************************************)
DeniedHasNoResult ==
    \A r \in Requests :
        /\ Exists(r) /\ requests[r].status = "DENIED"
        /\ \A c \in Clients : call[c] = Idle
        => ~ \E res \in results : res.request = r

(***************************************************************************)
(* A request is a single-use capability of its owner: an answer is         *)
(* processed only if it found the request pending, and after the request   *)
(* was settled; an answer that begins later is refused.                    *)
(***************************************************************************)
Settled == {r \in Requests : Exists(r) /\ requests[r].status # "PENDING"}

Presentations == [c \in Clients |->
    IF call[c] = Idle THEN [busy |-> FALSE]
    ELSE [busy |-> TRUE, token |-> call[c].request, eligible |-> TRUE]]

Processed == {<<e.client, e.request>> : e \in responded}

Contract == INSTANCE SingleUseCapability WITH
    Scanners <- Clients, Tokens <- Requests,
    burned <- Settled, scan <- Presentations, granted <- Processed

ImplementsContract == Contract!Spec
-----------------------------------------------------------------------------
(* Inductive invariant                                                     *)

HasResult(r) == \E res \in results : res.request = r

\* What a call under way knows of its request and of its caller.
CallInv ==
    \A c \in Clients : call[c] # Idle =>
        /\ requests[call[c].request].identity = call[c].identity
        /\ status[call[c].identity] = "ACTIVE" => call[c].active
        /\ call[c].pc \in {"claims", "result"} => call[c].approved
        /\ call[c].pc = "result" =>
              /\ call[c].claims \subseteq
                   UNION {ClaimsOf(sc) : sc \in requests[call[c].request].scopes}
              /\ call[c].valid => call[c].active
        /\ call[c].pc \in {"settle", "finish"} /\ call[c].approved =>
              HasResult(call[c].request)
        /\ call[c].pc = "finish" => requests[call[c].request].status # "PENDING"

RespondedExist == \A e \in responded : Exists(e.request)

ConsentInv ==
    /\ CallInv
    /\ ApprovedHasResult
    /\ ResultsAuthorised
    /\ RespondedExist
    /\ EventsFollowDecision
=============================================================================
