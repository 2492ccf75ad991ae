----------------------------- MODULE WebBackend -----------------------------
(***************************************************************************)
(* What the web client can tell of the API: the facts its pages show or    *)
(* change, and the server-sent events it subscribes to.  The modules       *)
(* QRVerification, ConsentFlow, Registration and Amendment look inside the *)
(* same operations; here a call takes effect at once, but for the answer   *)
(* to a consent request, which is tested, stored and published in three    *)
(* steps, and what matters is when the client learns of it.                *)
(*                                                                         *)
(* Besides the browser that ApiClient and the page modules describe,       *)
(* others use the API: an organization asks for consent, the holder        *)
(* answers from a phone, an administrator reviews an amendment.            *)
(***************************************************************************)
EXTENDS Naturals, Sequences, FiniteSets

CONSTANTS
    Holder,      \* an account with an identity
    Newcomer,    \* the account of somebody who has yet to register
    Recruiter,   \* the demo recruiter of the organization page
    Officer,     \* the demo account with the role SYSTEM_ADMIN
    Requests,    \* the IDs of verification requests
    MaxAmendments, \* bound on the amendment requests
    Documents,   \* the documents that may be uploaded
    QRTokens,    \* the tokens a verifier may be shown
    None

ASSUME WebBackendAssumption ==
    /\ Cardinality({Holder, Newcomer, Recruiter, Officer}) = 4
    /\ Requests \subseteq Nat
    /\ MaxAmendments \in Nat
    /\ None \notin {Holder, Newcomer, Recruiter, Officer} \cup Requests \cup Documents \cup QRTokens

VARIABLES
    world,  \* the stored facts
    feed    \* the event stream of the mounted page

Accounts == {Holder, Newcomer, Recruiter, Officer}

\* The two fields of a profile that differ in how the form is filled.
Fields == {"legal_name", "gender"}

\* An amendment request has new values for some fields: what the form offers
\* by itself ("MALE"), what the profile had, or something else.
Changes == UNION {[fields -> {"given", "MALE", "other"}] : fields \in SUBSET Fields}

Amendments == Seq([changes : Changes,
                   documents : SUBSET Documents,
                   status : {"PENDING_REVIEW", "APPROVED", "REJECTED"}])

PendingAmendment(changes, documents) ==
    [changes |-> changes, documents |-> documents, status |-> "PENDING_REVIEW"]

\* The facts at the start: the gender in the holder's profile, which may be
\* missing, and whether a request and an amendment are waiting already.
FirstWorld(gender, backlog) ==
    [accounts |-> Accounts \ {Newcomer},
     codes |-> {},                      \* the emails that were sent a code
     profile |-> [legal_name |-> "given", gender |-> gender],
     consent |-> [r \in Requests |-> IF backlog /\ r = 1 THEN "PENDING" ELSE "NONE"],
     answering |-> {},                  \* the answers the API is working on
     recorded |-> {},                   \* the answers it ever stored (history)
     amendments |-> IF backlog THEN <<PendingAmendment([legal_name |-> "other"], {})>>
                    ELSE <<>>,
     approved |-> {},                   \* the amendments ever approved (history)
     documents |-> {},
     spent |-> {},                      \* the QR tokens verified
     status |-> "ACTIVE",               \* of the suspected duplicate
     suspended |-> FALSE,               \* whether it ever was (history)
     flag |-> "PENDING_REVIEW"]         \* of the suspected duplicate

-----------------------------------------------------------------------------
(* Events. *)

NoFeed == [state |-> "closed"]

\* A stream about one request, or, if about = None, about the subscriber.
\* The broker feeds a subscriber from one queue per topic.
Connecting(as, about) ==
    [state |-> "connecting", as |-> as, about |-> about,
     queue |-> [topic \in IF about = None THEN {"identity", "eka_id"} ELSE {"request"} |-> <<>>]]

\* Only an administrator may name the topic of a stream.
MaySubscribe(f) == f.about = None \/ f.as = Officer

FeedOpens ==
    /\ feed.state = "connecting"
    /\ feed' = [feed EXCEPT !.state = IF MaySubscribe(feed) THEN "open" ELSE "refused"]

\* The connection is lost with what was queued; the browser dials again.
FeedBreaks ==
    /\ feed.state = "open"
    /\ feed' = Connecting(feed.as, feed.about)

\* The feed once the event was published to the topics.
Published(topics, event) ==
    IF feed.state # "open" THEN feed
    ELSE [feed EXCEPT !.queue = [t \in DOMAIN @ |-> IF t \in topics THEN Append(@[t], event)
                                                    ELSE @[t]]]

\* The goroutines of the topics forward in any order, each its own in turn.
Delivered(topic, event) ==
    /\ feed.state = "open"
    /\ topic \in DOMAIN feed.queue
    /\ feed.queue[topic] # <<>>
    /\ Head(feed.queue[topic]) = event
    /\ feed' = [feed EXCEPT !.queue[topic] = Tail(@)]

-----------------------------------------------------------------------------
(* The others. *)

Unused == {r \in Requests : world.consent[r] = "NONE"}

\* Which ID a request gets does not matter.
NextRequest == CHOOSE r \in Unused : TRUE

Created(r) == [world EXCEPT !.consent[r] = "PENDING"]

OrganizationAsks ==
    /\ Unused # {}
    /\ world' = Created(NextRequest)
    /\ feed' = Published({"identity", "eka_id"}, "CONSENT_REQUEST_CREATED")

\* The API works on an answer that it was given by a call of the browser, or by
\* the phone, or by nobody who still waits (by = 0).
Answering(by, r, approved) ==
    [by |-> by, request |-> r, approved |-> approved, stored |-> FALSE]

\* RespondRequest tests that the request is pending ...
Tested(by, r, approved) ==
    /\ world.consent[r] = "PENDING"
    /\ world' = [world EXCEPT !.answering = @ \cup {Answering(by, r, approved)}]

\* ... then stores the answer, whatever the status is by then ...
Responded(x) ==
    [world EXCEPT !.consent[x.request] = IF x.approved THEN "APPROVED" ELSE "REJECTED",
                  !.recorded = @ \cup {[request |-> x.request, approved |-> x.approved]},
                  !.answering = (@ \ {x}) \cup {[x EXCEPT !.stored = TRUE]}]

AnswerStored ==
    /\ \E x \in world.answering : ~x.stored /\ world' = Responded(x)
    /\ UNCHANGED feed

\* ... and the handler publishes it.
AnswerPublished(x) ==
    /\ x.stored
    /\ world' = [world EXCEPT !.answering = @ \ {x}]
    /\ feed' = IF feed.state = "open" /\ feed.about = x.request
               THEN Published({"request"}, [request |-> x.request, approved |-> x.approved])
               ELSE feed

HolderAnswers ==
    /\ \E r \in Requests, approved \in BOOLEAN : Tested(0, r, approved)
    /\ UNCHANGED feed

Changed(profile, changes) ==
    [field \in Fields |-> IF field \in DOMAIN changes THEN changes[field] ELSE profile[field]]

\* The profile follows an approval; an amendment may be reviewed again.
Reviewed(i, approved) ==
    [world EXCEPT !.amendments[i].status = IF approved THEN "APPROVED" ELSE "REJECTED",
                  !.approved = IF approved THEN @ \cup {i} ELSE @,
                  !.profile = IF approved THEN Changed(@, world.amendments[i].changes) ELSE @]

\* Only an approval is told to both topics.
AdministratorReviews ==
    \E i \in DOMAIN world.amendments, approved \in BOOLEAN :
        /\ world' = Reviewed(i, approved)
        /\ feed' = IF approved THEN Published({"identity", "eka_id"}, "AMENDMENT_APPROVED")
                   ELSE Published({"identity"}, "AMENDMENT_REJECTED")

Others == OrganizationAsks \/ HolderAnswers \/ AdministratorReviews
=============================================================================
