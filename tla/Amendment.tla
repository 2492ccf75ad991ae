------------------------------ MODULE Amendment ------------------------------
(***************************************************************************)
(* AmendmentService: documents, amendment requests and their review, for   *)
(* the profile of one identity.  ReviewAmendment tests no status: a        *)
(* request can be reviewed again, by several administrators at once.  An   *)
(* approval is a sequence of repository calls without a transaction:       *)
(*   GetByID; GetByIdentityID; the requested changes; profiles.Update;     *)
(*   amendments.UpdateStatus; a status for each document; the audit record.*)
(* In PostgreSQL a review changes a copy of the profile, and Update writes *)
(* the whole row back.  In the memory store it changes the shared record,  *)
(* field by field, and at last writes the status into the shared request.  *)
(*                                                                         *)
(* The values of a profile are opaque; Blank is a requested value that is  *)
(* empty or not a string, which a review skips.                            *)
(***************************************************************************)
EXTENDS Integers

CONSTANTS
    Reviews,       \* the calls of ReviewAmendment
    Requests,      \* the amendment requests
    Docs,          \* the documents
    Fields,        \* the fields of a profile that can be amended
    Values,        \* their values
    Blank,         \* a requested value that changes nothing
    Torn,          \* what two reviews leave that write a field at once
    Initial,       \* the profile stored at registration
    ChangeChoices, \* the changes a user may request: functions of some fields
    NoRequest,     \* a request that was not made
    CallsMayFail   \* TRUE: a call to PostgreSQL may return an error

ASSUME AmendmentAssumption ==
    /\ Blank \notin Values /\ Torn \notin Values \cup {Blank}
    /\ Initial \in [Fields -> Values]
    /\ \A changes \in ChangeChoices :
         /\ DOMAIN changes \subseteq Fields
         /\ changes \in [DOMAIN changes -> Values \cup {Blank}]
    /\ CallsMayFail \in BOOLEAN

VARIABLES
    shared,     \* TRUE: the memory store, FALSE: PostgreSQL
    profile,    \* profiles: the profile of the identity
    requests,   \* amendments
    docs,       \* docs[d]: the status of a document, or "absent"
    ledger,     \* audit_events: the decisions recorded, <<request, status>>
    call,       \* call[v]: the state of a review, or Idle
    applied,    \* the requests whose changes were stored (history)
    decisions,  \* the decisions stored, <<request, status>> (history)
    unlogged    \* the decisions whose audit record failed (history)

vars == <<shared, profile, requests, docs, ledger, call, applied, decisions, unlogged>>
histories == <<applied, decisions, unlogged>>

Statuses == {"PENDING_REVIEW", "APPROVED", "REJECTED"}

Profile == [Fields -> Values \cup {Torn}]

\* A request; "SNAPSHOT" while CreateAmendmentRequest has not stored it yet.
Request == [changes : ChangeChoices, current : Profile,
            docs : SUBSET Docs, status : Statuses \cup {"SNAPSHOT"}]

ASSUME NoRequestAssumption == NoRequest \notin Request

\* A review: todo are the fields it still has to change in place, before is the
\* profile it loaded.
Call == [pc : {"profile", "apply", "status", "docs", "report"}, request : Requests,
         approved : BOOLEAN, todo : SUBSET Fields, before : Profile]

\* A review that has not begun, and one that has ended.
Idle == [pc |-> "idle"]
Done == [pc |-> "done"]

TypeOK ==
    /\ shared \in BOOLEAN
    /\ profile \in Profile
    /\ requests \in [Requests -> Request \cup {NoRequest}]
    /\ docs \in [Docs -> {"absent", "PENDING", "VERIFIED"}]
    /\ ledger \subseteq Requests \X {"APPROVED", "REJECTED"}
    /\ call \in [Reviews -> Call \cup {Idle, Done}]
    /\ applied \subseteq Requests
    /\ decisions \subseteq Requests \X {"APPROVED", "REJECTED"}
    /\ unlogged \subseteq Requests \X {"APPROVED", "REJECTED"}

Init ==
    /\ shared \in BOOLEAN
    /\ profile = Initial
    /\ requests = [q \in Requests |-> NoRequest]
    /\ docs = [d \in Docs |-> "absent"]
    /\ ledger = {}
    /\ call = [v \in Reviews |-> Idle]
    /\ applied = {}
    /\ decisions = {}
    /\ unlogged = {}

\* Mutation: the memory store returns copies.
NeverLive == FALSE

\* The repositories return the stored record itself.
Live == shared

CallFails == CallsMayFail /\ ~shared

\* Mutation: blank values are applied as well.
AmendedBlanks(p, changes, fields) ==
    [f \in Fields |-> IF f \in fields \cap DOMAIN changes THEN changes[f] ELSE p[f]]

\* The profile p with the requested values of the given fields.
Amended(p, changes, fields) ==
    [f \in Fields |-> IF f \in fields \cap DOMAIN changes /\ changes[f] # Blank
                      THEN changes[f] ELSE p[f]]

Stored(q) == requests[q] # NoRequest /\ requests[q].status \in Statuses

UnderWay(v) == call[v] \notin {Idle, Done}

Decision(v) == IF call[v].approved THEN "APPROVED" ELSE "REJECTED"

ChangesOf(v) == requests[call[v].request].changes
-----------------------------------------------------------------------------
(* The user                                                                *)

UploadDocument(d) ==
    /\ docs[d] = "absent"
    /\ docs' = [docs EXCEPT ![d] = "PENDING"]
    /\ UNCHANGED <<shared, profile, requests, ledger, call, histories>>

\* CreateAmendmentRequest reads the current values; nothing tests that the
\* documents named exist...
CaptureCurrent(q, changes, attached) ==
    /\ requests[q] = NoRequest
    /\ DOMAIN changes # {}
    /\ requests' = [requests EXCEPT ![q] =
         [changes |-> changes, current |-> profile, docs |-> attached,
          status |-> "SNAPSHOT"]]
    /\ UNCHANGED <<shared, profile, docs, ledger, call, histories>>

\* ... and stores the request.
CreateAmendmentRequest(q) ==
    /\ requests[q] # NoRequest /\ requests[q].status = "SNAPSHOT"
    /\ requests' = [requests EXCEPT ![q].status = "PENDING_REVIEW"]
    /\ UNCHANGED <<shared, profile, docs, ledger, call, histories>>
-----------------------------------------------------------------------------
(* ReviewAmendment                                                         *)

Goto(v, step) == call' = [call EXCEPT ![v].pc = step]

\* Mutation: a rejection goes on as an approval does.
LoadRequestFallThrough(v, q, approved) ==
    /\ call[v] = Idle
    /\ Stored(q)
    /\ call' = [call EXCEPT ![v] =
         [pc |-> "profile", request |-> q, approved |-> approved, todo |-> {},
          before |-> Initial]]
    /\ UNCHANGED <<shared, profile, requests, docs, ledger, histories>>

\* GetByID: the request only has to exist.
LoadRequest(v, q, approved) ==
    /\ call[v] = Idle
    /\ Stored(q)
    /\ call' = [call EXCEPT ![v] =
         [pc |-> IF approved THEN "profile" ELSE "status", request |-> q,
          approved |-> approved, todo |-> {}, before |-> Initial]]
    /\ UNCHANGED <<shared, profile, requests, docs, ledger, histories>>

\* GetByIdentityID; a copy of the profile is changed at once.
LoadProfile(v) ==
    /\ call[v].pc = "profile"
    /\ call' = [call EXCEPT ![v].pc = "apply", ![v].before = profile,
                            ![v].todo = IF Live THEN DOMAIN ChangesOf(v) ELSE {}]
    /\ UNCHANGED <<shared, profile, requests, docs, ledger, histories>>

\* One turn of the loop over the requested changes, in any order, on the shared
\* record.
ApplyChange(v, f) ==
    /\ call[v].pc = "apply" /\ f \in call[v].todo
    /\ profile' = Amended(profile, ChangesOf(v), {f})
    /\ call' = [call EXCEPT ![v].todo = @ \ {f}]
    /\ UNCHANGED <<shared, requests, docs, ledger, histories>>

\* The data race: nothing keeps two reviews from assigning different strings to
\* a field of the shared record at once.
ApplyAtOnce(v, w, f) ==
    /\ call[v].pc = "apply" /\ f \in call[v].todo
    /\ call[w].pc = "apply" /\ f \in call[w].todo
    /\ Blank \notin {ChangesOf(v)[f], ChangesOf(w)[f]}
    /\ ChangesOf(v)[f] # ChangesOf(w)[f]
    /\ profile' = [profile EXCEPT ![f] = Torn]
    /\ call' = [call EXCEPT ![v].todo = @ \ {f}, ![w].todo = @ \ {f}]
    /\ UNCHANGED <<shared, requests, docs, ledger, histories>>

\* What profiles.Update stores: the shared record, or the whole changed copy.
Updated(v) == IF Live THEN profile ELSE Amended(call[v].before, ChangesOf(v), Fields)

\* Mutation: an error of profiles.Update is ignored.
UpdateProfileIgnored(v) ==
    /\ call[v].pc = "apply" /\ call[v].todo = {}
    /\ \/ profile' = Updated(v) /\ applied' = applied \cup {call[v].request}
       \/ CallFails /\ UNCHANGED <<profile, applied>>
    /\ Goto(v, "status")
    /\ UNCHANGED <<shared, requests, docs, ledger, decisions, unlogged>>

\* profiles.Update writes every column.
UpdateProfile(v) ==
    /\ call[v].pc = "apply" /\ call[v].todo = {}
    /\ profile' = Updated(v)
    /\ applied' = applied \cup {call[v].request}
    /\ Goto(v, "status")
    /\ UNCHANGED <<shared, requests, docs, ledger, decisions, unlogged>>

\* Mutation: a rejection too goes on to the documents.
UpdateStatusAnyDecision(v) ==
    /\ call[v].pc = "status"
    /\ requests' = [requests EXCEPT ![call[v].request].status = Decision(v)]
    /\ decisions' = decisions \cup {<<call[v].request, Decision(v)>>}
    /\ Goto(v, "docs")
    /\ UNCHANGED <<shared, profile, docs, ledger, applied, unlogged>>

\* amendments.UpdateStatus overwrites whatever status there is.
UpdateStatus(v) ==
    /\ call[v].pc = "status"
    /\ requests' = [requests EXCEPT ![call[v].request].status = Decision(v)]
    /\ decisions' = decisions \cup {<<call[v].request, Decision(v)>>}
    /\ Goto(v, IF call[v].approved THEN "docs" ELSE "report")
    /\ UNCHANGED <<shared, profile, docs, ledger, applied, unlogged>>

\* The attached documents become VERIFIED; an error, as for a document that does
\* not exist, is ignored.
VerifyDocuments(v) ==
    /\ call[v].pc = "docs"
    /\ LET attached == requests[call[v].request].docs
       IN  \E updated \in IF CallFails THEN SUBSET attached ELSE {attached} :
             docs' = [d \in Docs |-> IF d \in updated /\ docs[d] # "absent"
                                    THEN "VERIFIED" ELSE docs[d]]
    /\ Goto(v, "report")
    /\ UNCHANGED <<shared, profile, requests, ledger, histories>>

\* The shared request takes the status of the review that ends last.
Return(v) ==
    /\ call' = [call EXCEPT ![v] = Done]
    /\ requests' = IF shared
                     THEN [requests EXCEPT ![call[v].request].status = Decision(v)]
                     ELSE requests

RecordEntry(v) ==
    \/ /\ ledger' = ledger \cup {<<call[v].request, Decision(v)>>}
       /\ UNCHANGED unlogged
    \/ /\ CallFails
       /\ unlogged' = unlogged \cup {<<call[v].request, Decision(v)>>}
       /\ UNCHANGED ledger

\* Mutation: a rejection is not recorded.
ReportApprovalsOnly(v) ==
    /\ call[v].pc = "report"
    /\ IF call[v].approved THEN RecordEntry(v) ELSE UNCHANGED <<ledger, unlogged>>
    /\ Return(v)
    /\ UNCHANGED <<shared, profile, docs, applied, decisions>>

\* The audit record, whose error is discarded, and the answer.
Report(v) ==
    /\ call[v].pc = "report"
    /\ RecordEntry(v)
    /\ Return(v)
    /\ UNCHANGED <<shared, profile, docs, applied, decisions>>

\* A call whose error is returned fails, having taken effect or not.
Fail(v) ==
    /\ CallFails
    /\ \/ call[v].pc \in {"profile", "status"} /\ UNCHANGED unlogged
       \/ call[v].pc = "apply" /\ call[v].todo = {} /\ UNCHANGED unlogged
       \/ /\ call[v].pc \in {"docs", "report"}  \* UpdateStatus took effect
          /\ unlogged' = unlogged \cup {<<call[v].request, Decision(v)>>}
    /\ call' = [call EXCEPT ![v] = Done]
    /\ UNCHANGED <<shared, profile, requests, docs, ledger, applied, decisions>>

ReviewAmendment(v) ==
    \/ \E q \in Requests, approved \in BOOLEAN : LoadRequest(v, q, approved)
    \/ LoadProfile(v)
    \/ \E f \in Fields : ApplyChange(v, f)
    \/ UpdateProfile(v)
    \/ UpdateStatus(v)
    \/ VerifyDocuments(v)
    \/ Report(v)
    \/ Fail(v)

Next ==
    \/ \E d \in Docs : UploadDocument(d)
    \/ \E q \in Requests, changes \in ChangeChoices, attached \in SUBSET Docs :
         CaptureCurrent(q, changes, attached)
    \/ \E q \in Requests : CreateAmendmentRequest(q)
    \/ \E v \in Reviews : ReviewAmendment(v)
    \/ \E v, w \in Reviews, f \in Fields : ApplyAtOnce(v, w, f)

Spec == Init /\ [][Next]_vars
-----------------------------------------------------------------------------
(* Properties                                                              *)

(***************************************************************************)
(* A request that is APPROVED had its changes stored before, whatever      *)
(* fails and whoever else reviews it.                                      *)
(***************************************************************************)
ApprovedWasApplied ==
    \A q \in Requests : Stored(q) /\ requests[q].status = "APPROVED" => q \in applied

\* A review was told to approve q and stored its changes, or is under way.
Approving(q) ==
    \/ q \in applied
    \/ \E v \in Reviews : UnderWay(v) /\ call[v].request = q /\ call[v].approved

\* An approval of q gives the field f the value x.
Gives(q, f, x) ==
    /\ requests[q] # NoRequest /\ f \in DOMAIN requests[q].changes
    /\ requests[q].changes[f] = x
    /\ Approving(q)

(***************************************************************************)
(* A value of the profile is the first one or was requested and approved:  *)
(* a request that is only ever rejected changes nothing.  A torn value     *)
(* takes two approvals that ask for different ones.                        *)
(***************************************************************************)
ProfileFromApprovals ==
    \A f \in Fields :
        \/ profile[f] = Initial[f]
        \/ \E q \in Requests : Gives(q, f, profile[f])
        \/ /\ profile[f] = Torn
           /\ \E q, r \in Requests, x, y \in Values :
                x # y /\ Gives(q, f, x) /\ Gives(r, f, y)

(***************************************************************************)
(* A document is VERIFIED only if a request it is attached to was APPROVED *)
(* once: not by a rejection, nor by an approval that failed on the way.    *)
(***************************************************************************)
VerifiedByApproval ==
    \A d \in Docs : docs[d] = "VERIFIED" =>
        \E q \in Requests : /\ requests[q] # NoRequest /\ d \in requests[q].docs
                            /\ <<q, "APPROVED">> \in decisions

(***************************************************************************)
(* When no review of a request is under way, the ledger has the decision   *)
(* the request ended with, unless its audit record failed: also when two   *)
(* reviews disagreed.                                                      *)
(***************************************************************************)
DecisionsLogged ==
    \A q \in Requests :
        /\ Stored(q) /\ requests[q].status # "PENDING_REVIEW"
        /\ \A v \in Reviews : UnderWay(v) => call[v].request # q
        /\ <<q, requests[q].status>> \notin unlogged
        => <<q, requests[q].status>> \in ledger

(***************************************************************************)
(* A stored amendment of a field is undone by nothing but another          *)
(* amendment of that field (or two at once): no review loses the update of *)
(* another.                                                                *)
(***************************************************************************)
AmendmentsStay ==
    \A f \in Fields :
        (\E q \in applied, x \in Values : Gives(q, f, x))
        => profile[f] = Torn \/ \E q \in Requests : Gives(q, f, profile[f])

\* The same of the memory store, where reviews work on the shared record.
SharedAmendmentsStay == shared => AmendmentsStay

(***************************************************************************)
(* When an approval writes its audit record, the previous values it        *)
(* records, captured with the request, are those the approval replaced.    *)
(***************************************************************************)
DiffAccurate ==
    \A v \in Reviews : call[v].pc = "report" /\ call[v].approved =>
        \A f \in DOMAIN ChangesOf(v) :
            requests[call[v].request].current[f] = call[v].before[f]
-----------------------------------------------------------------------------
(* Inductive invariants                                                    *)

\* What a review under way knows of its request.
Informed(v) ==
    /\ Stored(call[v].request)
    /\ call[v].pc \in {"profile", "apply", "docs"} => call[v].approved
    /\ call[v].pc \in {"status", "docs", "report"} /\ call[v].approved =>
          call[v].request \in applied
    /\ call[v].pc \in {"docs", "report"} =>
          <<call[v].request, Decision(v)>> \in decisions
    /\ call[v].todo # {} => shared
    /\ call[v].todo \subseteq DOMAIN ChangesOf(v)

ReviewInv == \A v \in Reviews : UnderWay(v) => Informed(v)

\* As Gives, but in PostgreSQL the changes have been stored.
Gave(q, f, x) == Gives(q, f, x) /\ (q \in applied \/ shared)

\* Where a value may come from.
Origin(f, x) ==
    \/ x = Initial[f]
    \/ \E q \in Requests : Gave(q, f, x)
    \/ /\ x = Torn
       /\ \E q, r \in Requests, y, z \in Values :
            y # z /\ Gave(q, f, y) /\ Gave(r, f, z)

OriginInv ==
    \A f \in Fields :
        /\ Origin(f, profile[f])
        /\ \A v \in Reviews : UnderWay(v) => Origin(f, call[v].before[f])

\* A decision is in the ledger, or its record failed, or it is yet to be written.
LedgerInv ==
    \A q \in Requests : Stored(q) /\ requests[q].status # "PENDING_REVIEW" =>
        \/ <<q, requests[q].status>> \in ledger \cup unlogged
        \/ \E v \in Reviews : /\ call[v].pc \in {"docs", "report"}
                              /\ call[v].request = q
                              /\ Decision(v) = requests[q].status

\* A change of f to x has reached the profile: it was stored, or a review has
\* assigned it to the shared record.
Reached(q, f, x) ==
    /\ Gives(q, f, x)
    /\ \/ q \in applied
       \/ \E v \in Reviews : /\ call[v].pc = "apply" /\ call[v].request = q
                             /\ f \notin call[v].todo

StayInv ==
    /\ \A q \in applied : requests[q] # NoRequest
    /\ shared => \A f \in Fields :
         (\E q \in Requests, x \in Values : Reached(q, f, x))
         => profile[f] = Torn \/ \E q \in Requests : Gives(q, f, profile[f])
=============================================================================
