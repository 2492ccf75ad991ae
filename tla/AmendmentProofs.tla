--------------------------- MODULE AmendmentProofs ---------------------------
(***************************************************************************)
(* Theorems about Amendment, for every set of reviews, requests, documents,*)
(* fields and values, on either store and with any failing calls.          *)
(***************************************************************************)
EXTENDS Amendment, TLAPS

PCs == {"profile", "apply", "status", "docs", "report"}

-----------------------------------------------------------------------------
(* What a step does to the calls                                           *)

\* A review under way is a Call record, at one of its steps.
LEMMA UnderWayCall ==
    ASSUME TypeOK, NEW v \in Reviews
    PROVE  /\ UnderWay(v) => call[v] \in Call
           /\ UnderWay(v) <=> call[v].pc \in PCs
  BY DEF TypeOK, UnderWay, Call, Idle, Done, PCs

\* A review under way and the request it is about.
LEMMA CallFields ==
    ASSUME TypeOK, ReviewInv, NEW v \in Reviews, call[v].pc \in PCs
    PROVE  /\ UnderWay(v)
           /\ call[v] \in Call
           /\ call[v].request \in Requests
           /\ call[v].approved \in BOOLEAN
           /\ call[v].todo \subseteq Fields
           /\ call[v].before \in Profile
           /\ requests[call[v].request] \in Request
           /\ Stored(call[v].request)
           /\ ChangesOf(v) \in ChangeChoices
           /\ DOMAIN ChangesOf(v) \subseteq Fields
           /\ ChangesOf(v) \in [DOMAIN ChangesOf(v) -> Values \cup {Blank}]
           /\ Decision(v) \in {"APPROVED", "REJECTED"}
           /\ Decision(v) = "APPROVED" <=> call[v].approved
  <1>1. UnderWay(v) /\ call[v] \in Call
    BY UnderWayCall
  <1>2. Stored(call[v].request)
    BY <1>1 DEF ReviewInv, Informed
  <1>3. /\ call[v].request \in Requests /\ call[v].approved \in BOOLEAN
        /\ call[v].todo \subseteq Fields /\ call[v].before \in Profile
    BY <1>1 DEF Call
  <1>4. requests[call[v].request] \in Request
    BY <1>2, <1>3 DEF TypeOK, Stored
  <1>5. ChangesOf(v) \in ChangeChoices
    BY <1>4 DEF Request, ChangesOf
  <1>6. /\ DOMAIN ChangesOf(v) \subseteq Fields
        /\ ChangesOf(v) \in [DOMAIN ChangesOf(v) -> Values \cup {Blank}]
    BY <1>5, AmendmentAssumption
  <1>7. /\ Decision(v) \in {"APPROVED", "REJECTED"}
        /\ Decision(v) = "APPROVED" <=> call[v].approved
    BY <1>3 DEF Decision
  <1>8. QED
    BY <1>1, <1>2, <1>3, <1>4, <1>5, <1>6, <1>7

\* What v leaves alone of its own record when it goes on with a step, and what
\* it leaves alone of the others.
SameReview(v) ==
    /\ call'[v].request = call[v].request
    /\ call'[v].approved = call[v].approved
    /\ call'[v].before = call[v].before

OthersStay(v) == \A w \in Reviews \ {v} : call'[w] = call[w]

\* A review that goes on keeps its request, its decision and what it has to change.
LEMMA GotoCall ==
    ASSUME TypeOK, NEW v \in Reviews, call[v].pc \in PCs, NEW step \in PCs, Goto(v, step)
    PROVE  /\ call' \in [Reviews -> Call \cup {Idle, Done}]
           /\ call'[v] \in Call
           /\ call'[v].pc = step
           /\ call'[v].todo = call[v].todo
           /\ SameReview(v)
           /\ OthersStay(v)
  <1>1. call[v] \in Call
    BY UnderWayCall
  <1>2. call' = [call EXCEPT ![v] = [call[v] EXCEPT !.pc = step]]
    BY DEF Goto
  <1>3. [call[v] EXCEPT !.pc = step] \in Call
    BY <1>1 DEF Call, PCs
  <1>4. call'[v] = [call[v] EXCEPT !.pc = step]
    BY <1>2 DEF TypeOK
  <1>5. QED
    BY <1>1, <1>2, <1>3, <1>4 DEF TypeOK, SameReview, OthersStay, Call

\* A review that ends leaves the others alone.
LEMMA EndCall ==
    ASSUME TypeOK, NEW v \in Reviews, call' = [call EXCEPT ![v] = Done]
    PROVE  /\ call' \in [Reviews -> Call \cup {Idle, Done}]
           /\ call'[v] = Done
           /\ OthersStay(v)
  BY DEF TypeOK, OthersStay

\* LoadRequest begins a review of a stored request.
LEMMA LoadRequestCall ==
    ASSUME TypeOK, NEW v \in Reviews, NEW q \in Requests, NEW approved \in BOOLEAN,
           LoadRequest(v, q, approved)
    PROVE  /\ call' \in [Reviews -> Call \cup {Idle, Done}]
           /\ call'[v] \in Call
           /\ call'[v].pc = IF approved THEN "profile" ELSE "status"
           /\ call'[v].request = q
           /\ call'[v].approved = approved
           /\ call'[v].todo = {}
           /\ call'[v].before = Initial
           /\ OthersStay(v)
  <1> DEFINE next == [pc |-> IF approved THEN "profile" ELSE "status", request |-> q,
                      approved |-> approved, todo |-> {}, before |-> Initial]
  <1>1. Initial \in Profile
    BY AmendmentAssumption DEF Profile
  <1>2. next \in Call
    BY <1>1 DEF Call
  <1>3. call' = [call EXCEPT ![v] = next]
    BY DEF LoadRequest
  <1>4. call'[v] = next
    BY <1>3 DEF TypeOK
  <1>5. QED
    BY <1>2, <1>3, <1>4 DEF TypeOK, OthersStay

\* LoadProfile leaves the review with the profile as it is stored.
LEMMA LoadProfileCall ==
    ASSUME TypeOK, ReviewInv, NEW v \in Reviews, LoadProfile(v)
    PROVE  /\ call' \in [Reviews -> Call \cup {Idle, Done}]
           /\ call'[v] \in Call
           /\ call'[v].pc = "apply"
           /\ call'[v].request = call[v].request
           /\ call'[v].approved = call[v].approved
           /\ call'[v].todo = IF Live THEN DOMAIN ChangesOf(v) ELSE {}
           /\ call'[v].before = profile
           /\ OthersStay(v)
  <1> DEFINE todo == IF Live THEN DOMAIN ChangesOf(v) ELSE {}
  <1>1. call[v] \in Call /\ DOMAIN ChangesOf(v) \subseteq Fields
    BY CallFields DEF LoadProfile, PCs
  <1>2. call' = [call EXCEPT ![v] = [call[v] EXCEPT !.pc = "apply", !.before = profile,
                                                    !.todo = todo]]
    BY DEF LoadProfile
  <1>3. todo \subseteq Fields
    BY <1>1
  <1> HIDE DEF todo
  <1>4. [call[v] EXCEPT !.pc = "apply", !.before = profile, !.todo = todo] \in Call
    BY <1>1, <1>3 DEF TypeOK, Call
  <1>5. call'[v] = [call[v] EXCEPT !.pc = "apply", !.before = profile, !.todo = todo]
    BY <1>2 DEF TypeOK
  <1>6. /\ call'[v].pc = "apply" /\ call'[v].request = call[v].request
        /\ call'[v].approved = call[v].approved
        /\ call'[v].todo = todo /\ call'[v].before = profile
    BY <1>1, <1>5 DEF Call
  <1>7. call' \in [Reviews -> Call \cup {Idle, Done}] /\ OthersStay(v)
    BY <1>2, <1>4 DEF TypeOK, OthersStay
  <1>8. QED
    BY <1>4, <1>5, <1>6, <1>7 DEF todo

\* ApplyChange takes one field off what the review has to change.
LEMMA ApplyChangeCall ==
    ASSUME TypeOK, NEW v \in Reviews, NEW f \in Fields, ApplyChange(v, f)
    PROVE  /\ call' \in [Reviews -> Call \cup {Idle, Done}]
           /\ call'[v] \in Call
           /\ call'[v].pc = "apply"
           /\ call'[v].todo = call[v].todo \ {f}
           /\ SameReview(v)
           /\ OthersStay(v)
  <1>1. call[v] \in Call /\ call[v].pc = "apply"
    BY UnderWayCall DEF ApplyChange, PCs
  <1>2. call' = [call EXCEPT ![v] = [call[v] EXCEPT !.todo = @ \ {f}]]
    BY DEF ApplyChange
  <1>3. [call[v] EXCEPT !.todo = @ \ {f}] \in Call
    BY <1>1 DEF Call
  <1>4. call'[v] = [call[v] EXCEPT !.todo = @ \ {f}]
    BY <1>2 DEF TypeOK
  <1>5. QED
    BY <1>1, <1>2, <1>3, <1>4 DEF TypeOK, SameReview, OthersStay, Call

\* Two different reviews: they ask for different values.
LEMMA ApplyAtOnceCall ==
    ASSUME TypeOK, NEW v \in Reviews, NEW w \in Reviews, NEW f \in Fields,
           ApplyAtOnce(v, w, f)
    PROVE  /\ v # w
           /\ call' \in [Reviews -> Call \cup {Idle, Done}]
           /\ \A u \in {v, w} : /\ call'[u] \in Call
                                /\ call[u].pc = "apply" /\ call'[u].pc = "apply"
                                /\ f \in call[u].todo
                                /\ call'[u].todo = call[u].todo \ {f}
                                /\ SameReview(u)
           /\ \A u \in Reviews \ {v, w} : call'[u] = call[u]
  <1>1. /\ call[v] \in Call /\ call[v].pc = "apply" /\ f \in call[v].todo
        /\ call[w] \in Call /\ call[w].pc = "apply" /\ f \in call[w].todo
    BY UnderWayCall DEF ApplyAtOnce, PCs
  <1>2. v # w
    BY DEF ApplyAtOnce
  <1>3. call' = [call EXCEPT ![v] = [call[v] EXCEPT !.todo = @ \ {f}],
                             ![w] = [call[w] EXCEPT !.todo = @ \ {f}]]
    BY <1>2 DEF ApplyAtOnce, TypeOK
  <1>4. /\ [call[v] EXCEPT !.todo = @ \ {f}] \in Call
        /\ [call[w] EXCEPT !.todo = @ \ {f}] \in Call
    BY <1>1 DEF Call
  <1>5. /\ call'[v] = [call[v] EXCEPT !.todo = @ \ {f}]
        /\ call'[w] = [call[w] EXCEPT !.todo = @ \ {f}]
        /\ \A u \in Reviews \ {v, w} : call'[u] = call[u]
    BY <1>2, <1>3 DEF TypeOK
  <1>6. \A u \in {v, w} : call'[u] = [call[u] EXCEPT !.todo = @ \ {f}] /\ call[u] \in Call
    BY <1>1, <1>5
  <1>7. \A u \in {v, w} : /\ call'[u].pc = "apply"
                          /\ call'[u].todo = call[u].todo \ {f}
                          /\ SameReview(u)
    BY <1>1, <1>6 DEF Call, SameReview
  <1>8. call' \in [Reviews -> Call \cup {Idle, Done}]
    BY <1>3, <1>4 DEF TypeOK
  <1>9. QED
    BY <1>1, <1>2, <1>4, <1>5, <1>7, <1>8
-----------------------------------------------------------------------------
(* Types, and what a review knows                                          *)

\* A profile with requested values is a profile.
LEMMA AmendedType ==
    ASSUME NEW p \in Profile, NEW changes \in ChangeChoices, NEW fields
    PROVE  Amended(p, changes, fields) \in Profile
  <1>1. changes \in [DOMAIN changes -> Values \cup {Blank}]
    BY AmendmentAssumption
  <1>2. \A f \in DOMAIN changes : changes[f] # Blank => changes[f] \in Values
    BY <1>1
  <1>3. \A f \in Fields : p[f] \in Values \cup {Torn}
    BY DEF Profile
  <1>4. QED
    BY <1>2, <1>3 DEF Amended, Profile

\* What profiles.Update stores is a profile.
LEMMA UpdatedType ==
    ASSUME TypeOK, ReviewInv, NEW v \in Reviews, call[v].pc \in PCs
    PROVE  Updated(v) \in Profile
  <1>1. call[v].before \in Profile /\ ChangesOf(v) \in ChangeChoices
    BY CallFields
  <1>2. profile \in Profile
    BY DEF TypeOK
  <1>3. QED
    BY <1>1, <1>2, AmendedType DEF Updated

\* The status of a request is overwritten, or nothing happens to the requests.
LEMMA StatusWritten ==
    ASSUME TypeOK, NEW q \in Requests, requests[q] # NoRequest, NEW st \in Statuses,
           requests' = [requests EXCEPT ![q].status = st]
    PROVE  /\ requests' \in [Requests -> Request \cup {NoRequest}]
           /\ requests'[q] # NoRequest
           /\ requests'[q].status = st
           /\ requests'[q].changes = requests[q].changes
           /\ requests'[q].docs = requests[q].docs
           /\ \A r \in Requests \ {q} : requests'[r] = requests[r]
  <1>1. requests[q] \in Request
    BY DEF TypeOK
  <1>2. [requests[q] EXCEPT !.status = st] \in Request
    BY <1>1 DEF Request
  <1>3. requests' = [requests EXCEPT ![q] = [requests[q] EXCEPT !.status = st]]
    OBVIOUS
  <1>4. requests'[q] = [requests[q] EXCEPT !.status = st]
    BY <1>3 DEF TypeOK
  <1>5. QED
    BY <1>1, <1>2, <1>3, <1>4, NoRequestAssumption DEF TypeOK, Request

\* What every step does to the requests that exist: changes and documents stay.
RequestsStay ==
    \A q \in Requests : requests[q] # NoRequest =>
        /\ requests'[q] # NoRequest
        /\ requests'[q].changes = requests[q].changes
        /\ requests'[q].docs = requests[q].docs
        /\ requests[q].status \in Statuses => requests'[q].status \in Statuses

\* A review that returns changes no more of the requests than the status of its own.
LEMMA ReturnStep ==
    ASSUME TypeOK, ReviewInv, NEW v \in Reviews, call[v].pc \in PCs, Return(v)
    PROVE  /\ requests' \in [Requests -> Request \cup {NoRequest}]
           /\ call' \in [Reviews -> Call \cup {Idle, Done}]
           /\ call'[v] = Done
           /\ OthersStay(v)
           /\ RequestsStay
           /\ requests'[call[v].request].status \in
                {requests[call[v].request].status, Decision(v)}
           /\ shared => requests'[call[v].request].status = Decision(v)
           /\ \A r \in Requests \ {call[v].request} : requests'[r] = requests[r]
  <1> DEFINE q == call[v].request
  <1>1. /\ q \in Requests /\ requests[q] # NoRequest /\ requests[q].status \in Statuses
        /\ Decision(v) \in Statuses
    BY CallFields DEF Stored, Statuses
  <1>2. call' \in [Reviews -> Call \cup {Idle, Done}] /\ call'[v] = Done /\ OthersStay(v)
    BY EndCall DEF Return
  <1> HIDE DEF q
  <1>3. CASE shared
    <2>1. requests' = [requests EXCEPT ![q].status = Decision(v)]
      BY <1>3 DEF Return, q
    <2>2. /\ requests' \in [Requests -> Request \cup {NoRequest}]
          /\ requests'[q] # NoRequest
          /\ requests'[q].status = Decision(v)
          /\ requests'[q].changes = requests[q].changes
          /\ requests'[q].docs = requests[q].docs
          /\ \A r \in Requests \ {q} : requests'[r] = requests[r]
      BY <1>1, <2>1, StatusWritten
    <2>3. RequestsStay
      BY <1>1, <2>2 DEF RequestsStay
    <2>4. QED
      BY <1>2, <2>2, <2>3 DEF q
  <1>4. CASE ~shared
    <2>1. requests' = requests
      BY <1>4 DEF Return
    <2>2. QED
      BY <1>2, <1>4, <2>1 DEF RequestsStay, TypeOK
  <1>5. QED
    BY <1>3, <1>4

\* UpdateStatus writes the decision of the review into its request.
LEMMA UpdateStatusStep ==
    ASSUME TypeOK, ReviewInv, NEW v \in Reviews, UpdateStatus(v)
    PROVE  /\ requests' \in [Requests -> Request \cup {NoRequest}]
           /\ RequestsStay
           /\ requests'[call[v].request].status = Decision(v)
           /\ \A r \in Requests \ {call[v].request} : requests'[r] = requests[r]
  <1> DEFINE q == call[v].request
  <1>1. /\ q \in Requests /\ requests[q] # NoRequest /\ requests[q].status \in Statuses
        /\ Decision(v) \in Statuses
    BY CallFields DEF Stored, Statuses, UpdateStatus, PCs
  <1>2. requests' = [requests EXCEPT ![q].status = Decision(v)]
    BY DEF UpdateStatus
  <1> HIDE DEF q
  <1>3. /\ requests' \in [Requests -> Request \cup {NoRequest}]
        /\ requests'[q] # NoRequest
        /\ requests'[q].status = Decision(v)
        /\ requests'[q].changes = requests[q].changes
        /\ requests'[q].docs = requests[q].docs
        /\ \A r \in Requests \ {q} : requests'[r] = requests[r]
    BY <1>1, <1>2, StatusWritten
  <1>4. RequestsStay
    BY <1>1, <1>3 DEF RequestsStay
  <1>5. QED
    BY <1>3, <1>4 DEF q

\* CaptureCurrent makes a request out of nothing.
LEMMA CaptureStep ==
    ASSUME TypeOK, NEW q \in Requests, NEW changes \in ChangeChoices,
           NEW attached \in SUBSET Docs, CaptureCurrent(q, changes, attached)
    PROVE  /\ requests' \in [Requests -> Request \cup {NoRequest}]
           /\ requests[q] = NoRequest
           /\ requests'[q].status = "SNAPSHOT"
           /\ \A r \in Requests \ {q} : requests'[r] = requests[r]
           /\ RequestsStay
  <1> DEFINE new == [changes |-> changes, current |-> profile, docs |-> attached,
                     status |-> "SNAPSHOT"]
  <1>1. new \in Request
    BY DEF Request, TypeOK
  <1>2. requests[q] = NoRequest /\ requests' = [requests EXCEPT ![q] = new]
    BY DEF CaptureCurrent
  <1>3. requests'[q] = new
    BY <1>2 DEF TypeOK
  <1>4. QED
    BY <1>1, <1>2, <1>3 DEF TypeOK, RequestsStay

\* CreateAmendmentRequest stores a request that was captured.
LEMMA CreateStep ==
    ASSUME TypeOK, NEW q \in Requests, CreateAmendmentRequest(q)
    PROVE  /\ requests' \in [Requests -> Request \cup {NoRequest}]
           /\ requests'[q].status = "PENDING_REVIEW"
           /\ \A r \in Requests \ {q} : requests'[r] = requests[r]
           /\ RequestsStay
  <1>1. /\ requests[q] # NoRequest
        /\ requests' = [requests EXCEPT ![q].status = "PENDING_REVIEW"]
    BY DEF CreateAmendmentRequest
  <1>2. "PENDING_REVIEW" \in Statuses
    BY DEF Statuses
  <1>3. /\ requests' \in [Requests -> Request \cup {NoRequest}]
        /\ requests'[q] # NoRequest
        /\ requests'[q].status = "PENDING_REVIEW"
        /\ requests'[q].changes = requests[q].changes
        /\ requests'[q].docs = requests[q].docs
        /\ \A r \in Requests \ {q} : requests'[r] = requests[r]
    BY <1>1, <1>2, StatusWritten
  <1>4. QED
    BY <1>1, <1>2, <1>3 DEF RequestsStay
-----------------------------------------------------------------------------
(* Every step keeps the types and what the reviews know                    *)

\* What no step takes back.
NothingTakenBack ==
    /\ RequestsStay
    /\ shared' = shared
    /\ applied \subseteq applied'
    /\ decisions \subseteq decisions'
    /\ ledger \subseteq ledger'
    /\ unlogged \subseteq unlogged'

\* A review whose record stays keeps what it knows.
LEMMA StillInformed ==
    ASSUME TypeOK, ReviewInv, NothingTakenBack, NEW v \in Reviews, call'[v] = call[v],
           UnderWay(v)'
    PROVE  Informed(v)'
  <1>1. UnderWay(v)
    BY DEF UnderWay, Idle, Done
  <1>2. Informed(v)
    BY <1>1 DEF ReviewInv
  <1>3. call[v].request \in Requests
    BY <1>1, UnderWayCall DEF Call
  <1>4. Stored(call[v].request)'
    BY <1>2, <1>3 DEF Informed, Stored, NothingTakenBack, RequestsStay
  <1>5. Decision(v)' = Decision(v)
    BY DEF Decision
  <1>6. ChangesOf(v)' = ChangesOf(v)
    BY <1>2, <1>3 DEF Informed, Stored, ChangesOf, NothingTakenBack, RequestsStay
  <1>7. QED
    BY <1>2, <1>4, <1>5, <1>6 DEF Informed, NothingTakenBack

\* A step that changes the record of no review but v.
LEMMA OneReview ==
    ASSUME TypeOK, ReviewInv, NothingTakenBack, NEW v \in Reviews, OthersStay(v),
           UnderWay(v)' => Informed(v)'
    PROVE  ReviewInv'
  <1> SUFFICES ASSUME NEW w \in Reviews, UnderWay(w)'
               PROVE  Informed(w)'
    BY DEF ReviewInv
  <1>1. CASE w = v
    BY <1>1
  <1>2. CASE w # v
    BY <1>2, StillInformed DEF OthersStay
  <1>3. QED
    BY <1>1, <1>2

\* A step that changes no review.
LEMMA NoReview ==
    ASSUME TypeOK, ReviewInv, NothingTakenBack, call' = call
    PROVE  ReviewInv'
  BY StillInformed DEF ReviewInv

\* A review that ends leaves the others as informed as they were.
LEMMA DoneInformed ==
    ASSUME TypeOK, ReviewInv, NothingTakenBack, NEW v \in Reviews,
           call'[v] = Done, OthersStay(v)
    PROVE  ReviewInv'
  BY OneReview DEF UnderWay

\* A step of v that keeps its request and its decision.
LEMMA GoesOn ==
    ASSUME TypeOK, ReviewInv, NothingTakenBack, NEW v \in Reviews, call[v].pc \in PCs,
           OthersStay(v),
           call'[v].request = call[v].request, call'[v].approved = call[v].approved,
           call'[v].pc \in {"profile", "apply", "docs"} => call[v].approved,
           call'[v].pc \in {"status", "docs", "report"} /\ call[v].approved =>
              call[v].request \in applied',
           call'[v].pc \in {"docs", "report"} =>
              <<call[v].request, Decision(v)>> \in decisions',
           call'[v].todo # {} => shared,
           call'[v].todo \subseteq DOMAIN ChangesOf(v)
    PROVE  ReviewInv'
  <1>1. Stored(call[v].request) /\ call[v].request \in Requests
    BY CallFields
  <1>2. Stored(call[v].request)'
    BY <1>1 DEF NothingTakenBack, RequestsStay, Stored
  <1>3. Decision(v)' = Decision(v)
    BY DEF Decision
  <1>4. ChangesOf(v)' = ChangesOf(v)
    BY <1>1 DEF Stored, ChangesOf, NothingTakenBack, RequestsStay
  <1>5. Informed(v)'
    BY <1>2, <1>3, <1>4 DEF Informed, NothingTakenBack
  <1>6. QED
    BY <1>5, OneReview

\* Every step keeps the type and ReviewInv, and takes nothing back.
LEMMA StepInv ==
    ASSUME TypeOK, ReviewInv, [Next]_vars
    PROVE  TypeOK' /\ ReviewInv' /\ NothingTakenBack
  <1> USE DEF histories
  <1>1. ASSUME NEW d \in Docs, UploadDocument(d)
        PROVE  TypeOK' /\ ReviewInv' /\ NothingTakenBack
    <2>1. NothingTakenBack
      BY <1>1 DEF UploadDocument, NothingTakenBack, RequestsStay
    <2>2. TypeOK'
      BY <1>1 DEF UploadDocument, TypeOK
    <2>3. QED
      BY <1>1, <2>1, <2>2, NoReview DEF UploadDocument
  <1>2. ASSUME NEW q \in Requests, NEW changes \in ChangeChoices,
               NEW attached \in SUBSET Docs, CaptureCurrent(q, changes, attached)
        PROVE  TypeOK' /\ ReviewInv' /\ NothingTakenBack
    <2>1. requests' \in [Requests -> Request \cup {NoRequest}] /\ RequestsStay
      BY <1>2, CaptureStep
    <2>2. NothingTakenBack
      BY <1>2, <2>1 DEF CaptureCurrent, NothingTakenBack
    <2>3. TypeOK'
      BY <1>2, <2>1 DEF CaptureCurrent, TypeOK
    <2>4. QED
      BY <1>2, <2>2, <2>3, NoReview DEF CaptureCurrent
  <1>3. ASSUME NEW q \in Requests, CreateAmendmentRequest(q)
        PROVE  TypeOK' /\ ReviewInv' /\ NothingTakenBack
    <2>1. requests' \in [Requests -> Request \cup {NoRequest}] /\ RequestsStay
      BY <1>3, CreateStep
    <2>2. NothingTakenBack
      BY <1>3, <2>1 DEF CreateAmendmentRequest, NothingTakenBack
    <2>3. TypeOK'
      BY <1>3, <2>1 DEF CreateAmendmentRequest, TypeOK
    <2>4. QED
      BY <1>3, <2>2, <2>3, NoReview DEF CreateAmendmentRequest
  <1>4. ASSUME NEW v \in Reviews, NEW q \in Requests, NEW approved \in BOOLEAN,
               LoadRequest(v, q, approved)
        PROVE  TypeOK' /\ ReviewInv' /\ NothingTakenBack
    <2>1. NothingTakenBack
      BY <1>4 DEF LoadRequest, NothingTakenBack, RequestsStay
    <2>2. TypeOK'
      BY <1>4, LoadRequestCall DEF LoadRequest, TypeOK
    <2>3. Informed(v)'
      <3>1. Stored(q)'
        BY <1>4 DEF LoadRequest, Stored
      <3>2. QED
        BY <1>4, <3>1, LoadRequestCall DEF Informed
    <2>4. QED
      BY <1>4, <2>1, <2>2, <2>3, LoadRequestCall, OneReview
  <1>5. ASSUME NEW v \in Reviews, LoadProfile(v)
        PROVE  TypeOK' /\ ReviewInv' /\ NothingTakenBack
    <2>1. NothingTakenBack
      BY <1>5 DEF LoadProfile, NothingTakenBack, RequestsStay
    <2>2. TypeOK'
      BY <1>5, LoadProfileCall DEF LoadProfile, TypeOK
    <2>3. call[v].pc \in PCs /\ UnderWay(v) /\ call[v].pc = "profile"
      BY <1>5, UnderWayCall DEF LoadProfile, PCs
    <2>4. call[v].approved
      BY <2>3 DEF ReviewInv, Informed
    <2>5. (call'[v].todo # {} => shared) /\ call'[v].todo \subseteq DOMAIN ChangesOf(v)
      BY <1>5, LoadProfileCall DEF Live
    <2>6. /\ OthersStay(v) /\ call'[v].pc = "apply"
          /\ call'[v].request = call[v].request /\ call'[v].approved = call[v].approved
      BY <1>5, LoadProfileCall
    <2>7. QED
      BY <2>1, <2>2, <2>3, <2>4, <2>5, <2>6, GoesOn
  <1>6. ASSUME NEW v \in Reviews, NEW f \in Fields, ApplyChange(v, f)
        PROVE  TypeOK' /\ ReviewInv' /\ NothingTakenBack
    <2>1. NothingTakenBack
      BY <1>6 DEF ApplyChange, NothingTakenBack, RequestsStay
    <2>2. call[v].pc \in PCs /\ UnderWay(v) /\ call[v].pc = "apply" /\ f \in call[v].todo
      BY <1>6, UnderWayCall DEF ApplyChange, PCs
    <2>3. TypeOK'
      <3>1. profile' \in Profile
        BY <1>6, <2>2, AmendedType, CallFields DEF ApplyChange, TypeOK
      <3>2. QED
        BY <1>6, <3>1, ApplyChangeCall DEF ApplyChange, TypeOK
    <2>4. call[v].approved /\ shared /\ call[v].todo \subseteq DOMAIN ChangesOf(v)
      BY <2>2 DEF ReviewInv, Informed
    <2>5. /\ OthersStay(v) /\ SameReview(v) /\ call'[v].pc = "apply"
          /\ call'[v].todo = call[v].todo \ {f}
      BY <1>6, ApplyChangeCall
    <2>6. QED
      BY <2>1, <2>2, <2>3, <2>4, <2>5, GoesOn DEF SameReview
  <1>7. ASSUME NEW v \in Reviews, NEW w \in Reviews, NEW f \in Fields, ApplyAtOnce(v, w, f)
        PROVE  TypeOK' /\ ReviewInv' /\ NothingTakenBack
    <2>1. NothingTakenBack
      BY <1>7 DEF ApplyAtOnce, NothingTakenBack, RequestsStay
    <2>2. /\ call' \in [Reviews -> Call \cup {Idle, Done}]
          /\ \A u \in {v, w} : /\ call[u].pc = "apply" /\ call'[u].pc = "apply"
                               /\ f \in call[u].todo /\ SameReview(u)
                               /\ call'[u].todo = call[u].todo \ {f}
          /\ \A u \in Reviews \ {v, w} : call'[u] = call[u]
      BY <1>7, ApplyAtOnceCall
    <2>3. TypeOK'
      <3>1. profile' \in Profile
        BY <1>7 DEF ApplyAtOnce, TypeOK, Profile
      <3>2. QED
        BY <1>7, <2>2, <3>1 DEF ApplyAtOnce, TypeOK
    <2>4. ASSUME NEW u \in Reviews, UnderWay(u)'
          PROVE  Informed(u)'
      <3>1. CASE u \in {v, w}
        <4>1. UnderWay(u) /\ call[u].pc = "apply" /\ call'[u].pc = "apply" /\ SameReview(u)
              /\ f \in call[u].todo
          BY <2>2, <3>1, UnderWayCall DEF PCs
        <4>2. Informed(u) /\ shared
          BY <4>1 DEF ReviewInv, Informed
        <4>3. Stored(call[u].request)'
          BY <1>7, <4>1, <4>2 DEF ApplyAtOnce, Informed, Stored, SameReview
        <4>4. call'[u].todo \subseteq DOMAIN ChangesOf(u)'
          BY <1>7, <2>2, <3>1, <4>1, <4>2 DEF ApplyAtOnce, Informed, ChangesOf, SameReview
        <4>5. QED
          BY <2>1, <4>1, <4>2, <4>3, <4>4 DEF Informed, SameReview, NothingTakenBack
      <3>2. CASE u \notin {v, w}
        BY <2>1, <2>2, <2>4, <3>2, StillInformed
      <3>3. QED
        BY <3>1, <3>2
    <2>5. QED
      BY <2>1, <2>3, <2>4 DEF ReviewInv
  <1>8. ASSUME NEW v \in Reviews, UpdateProfile(v)
        PROVE  TypeOK' /\ ReviewInv' /\ NothingTakenBack
    <2>1. NothingTakenBack
      BY <1>8 DEF UpdateProfile, NothingTakenBack, RequestsStay
    <2>2. call[v].pc \in PCs /\ call[v].todo = {} /\ Goto(v, "status")
      BY <1>8 DEF UpdateProfile, PCs
    <2>3. "status" \in PCs
      BY DEF PCs
    <2>4. /\ call' \in [Reviews -> Call \cup {Idle, Done}]
          /\ call'[v].pc = "status" /\ call'[v].todo = {}
          /\ SameReview(v) /\ OthersStay(v)
      BY <2>2, <2>3, GotoCall
    <2>5. TypeOK'
      <3>1. profile' \in Profile /\ call[v].request \in Requests
        BY <1>8, <2>2, UpdatedType, CallFields DEF UpdateProfile
      <3>2. QED
        BY <1>8, <2>4, <3>1 DEF UpdateProfile, TypeOK
    <2>6. call[v].request \in applied'
      BY <1>8 DEF UpdateProfile
    <2>7. QED
      BY <2>1, <2>2, <2>4, <2>5, <2>6, GoesOn DEF SameReview
  <1>9. ASSUME NEW v \in Reviews, UpdateStatus(v)
        PROVE  TypeOK' /\ ReviewInv' /\ NothingTakenBack
    <2>1. call[v].pc \in PCs /\ UnderWay(v) /\ call[v].pc = "status"
      BY <1>9, UnderWayCall DEF UpdateStatus, PCs
    <2> DEFINE step == IF call[v].approved THEN "docs" ELSE "report"
    <2>2. step \in PCs /\ Goto(v, step)
      BY <1>9 DEF UpdateStatus, PCs
    <2>3. /\ call' \in [Reviews -> Call \cup {Idle, Done}]
          /\ call'[v].pc = step /\ call'[v].todo = call[v].todo
          /\ SameReview(v) /\ OthersStay(v)
      BY <2>1, <2>2, GotoCall
    <2>4. requests' \in [Requests -> Request \cup {NoRequest}] /\ RequestsStay
      BY <1>9, UpdateStatusStep
    <2>5. NothingTakenBack
      BY <1>9, <2>4 DEF UpdateStatus, NothingTakenBack
    <2>6. /\ call[v].request \in Requests /\ Decision(v) \in {"APPROVED", "REJECTED"}
          /\ call[v].approved \in BOOLEAN
      BY <2>1, CallFields
    <2>7. decisions' \subseteq Requests \X {"APPROVED", "REJECTED"}
      BY <1>9, <2>6 DEF UpdateStatus, TypeOK
    <2>8. TypeOK'
      BY <1>9, <2>3, <2>4, <2>7 DEF UpdateStatus, TypeOK
    <2>9. Informed(v) /\ <<call[v].request, Decision(v)>> \in decisions'
      BY <1>9, <2>1 DEF UpdateStatus, ReviewInv
    <2>10. QED
      <3>1. call'[v].pc = "docs" => call[v].approved
        BY <2>3
      <3>2. call'[v].pc \in {"docs", "report"}
        BY <2>3
      <3>3. call[v].approved => call[v].request \in applied'
        BY <2>1, <2>5, <2>9 DEF Informed, NothingTakenBack
      <3>4. (call'[v].todo # {} => shared) /\ call'[v].todo \subseteq DOMAIN ChangesOf(v)
        BY <2>3, <2>9 DEF Informed
      <3>5. QED
        BY <2>1, <2>3, <2>5, <2>8, <2>9, <3>1, <3>2, <3>3, <3>4, GoesOn DEF SameReview
  <1>10. ASSUME NEW v \in Reviews, VerifyDocuments(v)
         PROVE  TypeOK' /\ ReviewInv' /\ NothingTakenBack
    <2>1. call[v].pc \in PCs /\ UnderWay(v) /\ call[v].pc = "docs"
      BY <1>10, UnderWayCall DEF VerifyDocuments, PCs
    <2>2. "report" \in PCs /\ Goto(v, "report")
      BY <1>10 DEF VerifyDocuments, PCs
    <2>3. /\ call' \in [Reviews -> Call \cup {Idle, Done}]
          /\ call'[v].pc = "report" /\ call'[v].todo = call[v].todo
          /\ SameReview(v) /\ OthersStay(v)
      BY <2>1, <2>2, GotoCall
    <2>4. NothingTakenBack
      BY <1>10 DEF VerifyDocuments, NothingTakenBack, RequestsStay
    <2>5. TypeOK'
      <3>1. docs' \in [Docs -> {"absent", "PENDING", "VERIFIED"}]
        BY <1>10 DEF VerifyDocuments, TypeOK
      <3>2. QED
        BY <1>10, <2>3, <3>1 DEF VerifyDocuments, TypeOK
    <2>6. Informed(v)
      BY <2>1 DEF ReviewInv
    <2>7. /\ call[v].request \in applied'
          /\ <<call[v].request, Decision(v)>> \in decisions'
          /\ call'[v].todo # {} => shared
          /\ call'[v].todo \subseteq DOMAIN ChangesOf(v)
      BY <2>1, <2>3, <2>4, <2>6 DEF Informed, NothingTakenBack
    <2>8. QED
      BY <2>1, <2>3, <2>4, <2>5, <2>7, GoesOn DEF SameReview
  <1>11. ASSUME NEW v \in Reviews, Report(v)
         PROVE  TypeOK' /\ ReviewInv' /\ NothingTakenBack
    <2>1. call[v].pc \in PCs /\ Return(v)
      BY <1>11 DEF Report, PCs
    <2>2. /\ requests' \in [Requests -> Request \cup {NoRequest}]
          /\ call' \in [Reviews -> Call \cup {Idle, Done}]
          /\ call'[v] = Done /\ OthersStay(v) /\ RequestsStay
      BY <2>1, ReturnStep
    <2>3. <<call[v].request, Decision(v)>> \in Requests \X {"APPROVED", "REJECTED"}
      BY <2>1, CallFields
    <2>4. /\ ledger \subseteq ledger' /\ unlogged \subseteq unlogged'
          /\ ledger' \subseteq Requests \X {"APPROVED", "REJECTED"}
          /\ unlogged' \subseteq Requests \X {"APPROVED", "REJECTED"}
      BY <1>11, <2>3 DEF Report, RecordEntry, TypeOK
    <2>5. NothingTakenBack
      BY <1>11, <2>2, <2>4 DEF Report, NothingTakenBack
    <2>6. TypeOK'
      BY <1>11, <2>2, <2>4 DEF Report, TypeOK
    <2>7. QED
      BY <2>2, <2>5, <2>6, DoneInformed
  <1>12. ASSUME NEW v \in Reviews, Fail(v)
         PROVE  TypeOK' /\ ReviewInv' /\ NothingTakenBack
    <2>1. call[v].pc \in PCs /\ call' = [call EXCEPT ![v] = Done]
      BY <1>12 DEF Fail, PCs
    <2>2. /\ call' \in [Reviews -> Call \cup {Idle, Done}]
          /\ call'[v] = Done /\ OthersStay(v)
      BY <2>1, EndCall
    <2>3. <<call[v].request, Decision(v)>> \in Requests \X {"APPROVED", "REJECTED"}
      BY <2>1, CallFields
    <2>4. /\ unlogged \subseteq unlogged'
          /\ unlogged' \subseteq Requests \X {"APPROVED", "REJECTED"}
      BY <1>12, <2>3 DEF Fail, TypeOK
    <2>5. NothingTakenBack
      BY <1>12, <2>4 DEF Fail, NothingTakenBack, RequestsStay
    <2>6. TypeOK'
      BY <1>12, <2>2, <2>4 DEF Fail, TypeOK
    <2>7. QED
      BY <2>2, <2>5, <2>6, DoneInformed
  <1>13. CASE UNCHANGED vars
    <2>1. NothingTakenBack
      BY <1>13 DEF vars, NothingTakenBack, RequestsStay
    <2>2. TypeOK'
      BY <1>13 DEF vars, TypeOK
    <2>3. QED
      BY <1>13, <2>1, <2>2, NoReview DEF vars
  <1>14. QED
    BY <1>1, <1>2, <1>3, <1>4, <1>5, <1>6, <1>7, <1>8, <1>9, <1>10, <1>11, <1>12, <1>13
       DEF Next, ReviewAmendment

\* At the beginning nothing is stored and no review is under way.
LEMMA InitInv == Init => TypeOK /\ ReviewInv
  <1>1. Init => TypeOK
    <2>1. Initial \in Profile
      BY AmendmentAssumption DEF Profile
    <2>2. QED
      BY <2>1 DEF Init, TypeOK
  <1>2. Init => ReviewInv
    BY DEF Init, ReviewInv, UnderWay
  <1>3. QED
    BY <1>1, <1>2

\* What a review under way knows of its request holds in every reachable state.
LEMMA Informative == Spec => [](TypeOK /\ ReviewInv)
  <1>1. TypeOK /\ ReviewInv /\ [Next]_vars => (TypeOK /\ ReviewInv)'
    BY StepInv
  <1>2. QED
    BY <1>1, InitInv, PTL DEF Spec

(***************************************************************************)
(* Every reachable state of Amendment is well typed.                       *)
(***************************************************************************)
THEOREM TypeCorrect == Spec => []TypeOK
  BY Informative, PTL
-----------------------------------------------------------------------------
(* The status of a request                                                 *)

\* Who writes the status of a request, and what.
LEMMA StatusStep ==
    ASSUME TypeOK, ReviewInv, [Next]_vars, NEW q \in Requests, Stored(q)'
    PROVE  \/ requests'[q].status = "PENDING_REVIEW"
           \/ Stored(q) /\ requests'[q].status = requests[q].status
           \/ \E v \in Reviews : /\ UpdateStatus(v) /\ call[v].request = q
                                 /\ requests'[q].status = Decision(v)
           \/ \E v \in Reviews : /\ Report(v) /\ call[v].request = q
                                 /\ requests'[q].status = Decision(v)
  <1> DEFINE Same == Stored(q) /\ requests'[q].status = requests[q].status
  <1>1. requests'[q] = requests[q] => Same
    BY DEF Stored
  <1>2. requests' = requests => Same
    BY <1>1
  <1> HIDE DEF Same
  <1>3. ASSUME NEW d \in Docs, UploadDocument(d)
        PROVE  Same
    BY <1>2, <1>3 DEF UploadDocument
  <1>4. ASSUME NEW r \in Requests, NEW changes \in ChangeChoices,
               NEW attached \in SUBSET Docs, CaptureCurrent(r, changes, attached)
        PROVE  Same
    <2>1. r # q
      BY <1>4, CaptureStep DEF Stored, Statuses
    <2>2. requests'[q] = requests[q]
      BY <1>4, <2>1, CaptureStep
    <2>3. QED
      BY <1>1, <2>2
  <1>5. ASSUME NEW r \in Requests, CreateAmendmentRequest(r)
        PROVE  requests'[q].status = "PENDING_REVIEW" \/ Same
    <2>1. CASE r = q
      BY <1>5, <2>1, CreateStep
    <2>2. CASE r # q
      BY <1>1, <1>5, <2>2, CreateStep
    <2>3. QED
      BY <2>1, <2>2
  <1>6. ASSUME NEW v \in Reviews, UpdateStatus(v)
        PROVE  Same \/ (call[v].request = q /\ requests'[q].status = Decision(v))
    <2>1. CASE call[v].request = q
      BY <1>6, <2>1, UpdateStatusStep
    <2>2. CASE call[v].request # q
      BY <1>1, <1>6, <2>2, UpdateStatusStep
    <2>3. QED
      BY <2>1, <2>2
  <1>7. ASSUME NEW v \in Reviews, Report(v)
        PROVE  Same \/ (call[v].request = q /\ requests'[q].status = Decision(v))
    <2>1. call[v].pc \in PCs /\ Return(v)
      BY <1>7 DEF Report, PCs
    <2>2. CASE call[v].request = q
      <3>1. requests'[q].status \in {requests[q].status, Decision(v)}
        BY <2>1, <2>2, ReturnStep
      <3>2. Stored(q)
        BY <2>1, <2>2, CallFields
      <3>3. QED
        BY <2>2, <3>1, <3>2 DEF Same
    <2>3. CASE call[v].request # q
      BY <1>1, <2>1, <2>3, ReturnStep
    <2>4. QED
      BY <2>2, <2>3
  <1>8. ASSUME NEW v \in Reviews,
               \/ \E r \in Requests, approved \in BOOLEAN : LoadRequest(v, r, approved)
               \/ LoadProfile(v) \/ (\E f \in Fields : ApplyChange(v, f))
               \/ UpdateProfile(v) \/ VerifyDocuments(v) \/ Fail(v)
        PROVE  Same
    BY <1>2, <1>8 DEF LoadRequest, LoadProfile, ApplyChange, UpdateProfile,
                      VerifyDocuments, Fail
  <1>9. ASSUME NEW v \in Reviews, NEW w \in Reviews, NEW f \in Fields, ApplyAtOnce(v, w, f)
        PROVE  Same
    BY <1>2, <1>9 DEF ApplyAtOnce
  <1>10. ASSUME UNCHANGED vars
         PROVE  Same
    BY <1>2, <1>10 DEF vars
  <1>11. QED
    <2>1. ASSUME NEW v \in Reviews, ReviewAmendment(v)
          PROVE  Same \/ UpdateStatus(v) \/ Report(v)
      BY <1>8, <2>1 DEF ReviewAmendment
    <2>2. CASE Same
      BY <2>2 DEF Same
    <2>3. CASE ~Same /\ requests'[q].status # "PENDING_REVIEW"
      <3>1. \E v \in Reviews : ReviewAmendment(v)
        BY <1>3, <1>4, <1>5, <1>9, <1>10, <2>3 DEF Next
      <3>2. PICK v \in Reviews : UpdateStatus(v) \/ Report(v)
        BY <2>1, <2>3, <3>1
      <3>3. call[v].request = q /\ requests'[q].status = Decision(v)
        BY <1>6, <1>7, <2>3, <3>2
      <3>4. QED
        BY <3>2, <3>3
    <2>4. QED
      BY <2>2, <2>3

\* Only an approval that has stored its changes writes APPROVED.
LEMMA ApprovedStep ==
    ASSUME TypeOK, ReviewInv, ApprovedWasApplied, [Next]_vars
    PROVE  ApprovedWasApplied'
  <1> SUFFICES ASSUME NEW q \in Requests, Stored(q)', requests'[q].status = "APPROVED"
               PROVE  q \in applied'
    BY DEF ApprovedWasApplied
  <1>1. applied \subseteq applied'
    BY StepInv DEF NothingTakenBack
  <1>2. CASE Stored(q) /\ requests'[q].status = requests[q].status
    BY <1>1, <1>2 DEF ApprovedWasApplied
  <1>3. ASSUME NEW v \in Reviews, UpdateStatus(v) \/ Report(v), call[v].request = q,
               requests'[q].status = Decision(v)
        PROVE  q \in applied'
    <2>1. call[v].pc \in {"status", "report"}
      BY <1>3 DEF UpdateStatus, Report
    <2>2. UnderWay(v) /\ call[v].approved
      BY <1>3, <2>1, CallFields DEF PCs
    <2>3. QED
      BY <1>1, <1>3, <2>1, <2>2 DEF ReviewInv, Informed
  <1>4. QED
    BY <1>2, <1>3, StatusStep

(***************************************************************************)
(* No request is ever APPROVED whose changes were not stored before,       *)
(* however many reviews run at once and whatever calls fail.               *)
(***************************************************************************)
THEOREM ApprovalsWereApplied == Spec => []ApprovedWasApplied
  <1>1. Init => ApprovedWasApplied
    BY DEF Init, ApprovedWasApplied, Stored
  <1>2. TypeOK /\ ReviewInv /\ ApprovedWasApplied /\ [Next]_vars => ApprovedWasApplied'
    BY ApprovedStep
  <1>3. QED
    BY <1>1, <1>2, Informative, PTL DEF Spec

\* The steps that make the changes of a review.
Applying(v) ==
    \/ LoadProfile(v)
    \/ \E f \in Fields : ApplyChange(v, f)
    \/ \E u, w \in Reviews, f \in Fields : ApplyAtOnce(u, w, f) /\ v \in {u, w}

\* What a step may do to the record of a review.
LEMMA CallStep ==
    ASSUME TypeOK, ReviewInv, [Next]_vars, NEW v \in Reviews
    PROVE  \/ call'[v] = call[v]
           \/ /\ call[v] = Idle
              /\ call'[v].before = Initial
              /\ call'[v].pc \in {"profile", "status"}
           \/ /\ UnderWay(v) /\ call'[v] \in Call
              /\ call'[v].request = call[v].request
              /\ call'[v].approved = call[v].approved
              /\ call'[v].before \in {profile, call[v].before}
              /\ call[v].pc \in {"docs", "report"} => call'[v].pc \in {"docs", "report"}
              /\ call'[v].pc = "apply" => Applying(v)
           \/ call'[v] = Done /\ (Report(v) \/ Fail(v))
  <1> USE DEF histories
  <1> DEFINE GoOn == /\ UnderWay(v) /\ call'[v] \in Call
                     /\ call'[v].request = call[v].request
                     /\ call'[v].approved = call[v].approved
                     /\ call'[v].before \in {profile, call[v].before}
                     /\ call[v].pc \in {"docs", "report"} => call'[v].pc \in {"docs", "report"}
                     /\ call'[v].pc = "apply" => Applying(v)
             Begin == /\ call[v] = Idle
                      /\ call'[v].before = Initial
                      /\ call'[v].pc \in {"profile", "status"}
             End == call'[v] = Done /\ (Report(v) \/ Fail(v))
             Stay == call'[v] = call[v]
  <1>1. call[v].pc \in PCs => UnderWay(v)
    BY UnderWayCall
  <1>2. ASSUME NEW w \in Reviews, OthersStay(w), w # v
        PROVE  Stay
    BY <1>2 DEF OthersStay
  <1>3. ASSUME NEW w \in Reviews, NEW q \in Requests, NEW approved \in BOOLEAN,
               LoadRequest(w, q, approved)
        PROVE  Stay \/ Begin
    <2>1. CASE w = v
      BY <1>3, <2>1, LoadRequestCall DEF LoadRequest
    <2>2. CASE w # v
      BY <1>2, <1>3, <2>2, LoadRequestCall
    <2>3. QED
      BY <2>1, <2>2
  <1>4. ASSUME NEW w \in Reviews, LoadProfile(w)
        PROVE  Stay \/ GoOn
    <2>1. CASE w = v
      BY <1>1, <1>4, <2>1, LoadProfileCall DEF LoadProfile, PCs, Applying
    <2>2. CASE w # v
      BY <1>2, <1>4, <2>2, LoadProfileCall
    <2>3. QED
      BY <2>1, <2>2
  <1>5. ASSUME NEW w \in Reviews, NEW f \in Fields, ApplyChange(w, f)
        PROVE  Stay \/ GoOn
    <2>1. CASE w = v
      BY <1>1, <1>5, <2>1, ApplyChangeCall DEF ApplyChange, PCs, SameReview, Applying
    <2>2. CASE w # v
      BY <1>2, <1>5, <2>2, ApplyChangeCall
    <2>3. QED
      BY <2>1, <2>2
  <1>6. ASSUME NEW w \in Reviews, NEW step \in PCs, call[w].pc \in PCs, Goto(w, step),
               call[w].pc \in {"docs", "report"} => step \in {"docs", "report"},
               step # "apply"
        PROVE  Stay \/ GoOn
    <2>1. /\ call'[w] \in Call /\ call'[w].pc = step
          /\ SameReview(w) /\ OthersStay(w)
      BY <1>6, GotoCall
    <2>2. CASE w = v
      BY <1>1, <1>6, <2>1, <2>2 DEF SameReview
    <2>3. CASE w # v
      BY <1>2, <2>1, <2>3
    <2>4. QED
      BY <2>2, <2>3
  <1>7. ASSUME NEW w \in Reviews, UpdateProfile(w) \/ UpdateStatus(w) \/ VerifyDocuments(w)
        PROVE  Stay \/ GoOn
    <2>1. PICK step \in PCs : /\ Goto(w, step) /\ call[w].pc \in PCs
                              /\ call[w].pc \in {"docs", "report"} =>
                                   step \in {"docs", "report"}
                              /\ step # "apply"
      BY <1>7 DEF UpdateProfile, UpdateStatus, VerifyDocuments, PCs
    <2>2. QED
      BY <1>6, <2>1
  <1>8. ASSUME NEW w \in Reviews, Report(w) \/ Fail(w)
        PROVE  Stay \/ End
    <2>1. call' = [call EXCEPT ![w] = Done]
      BY <1>8 DEF Report, Return, Fail
    <2>2. CASE w = v
      BY <1>8, <2>1, <2>2, EndCall
    <2>3. CASE w # v
      BY <1>2, <2>1, <2>3, EndCall
    <2>4. QED
      BY <2>2, <2>3
  <1>9. ASSUME NEW u \in Reviews, NEW w \in Reviews, NEW f \in Fields, ApplyAtOnce(u, w, f)
        PROVE  Stay \/ GoOn
    <2>1. CASE v \in {u, w}
      BY <1>1, <1>9, <2>1, ApplyAtOnceCall DEF PCs, SameReview, Applying
    <2>2. CASE v \notin {u, w}
      BY <1>9, <2>2, ApplyAtOnceCall
    <2>3. QED
      BY <2>1, <2>2
  <1>10. ASSUME \/ \E d \in Docs : UploadDocument(d)
                \/ \E q \in Requests, changes \in ChangeChoices, attached \in SUBSET Docs :
                     CaptureCurrent(q, changes, attached)
                \/ \E q \in Requests : CreateAmendmentRequest(q)
                \/ UNCHANGED vars
         PROVE  Stay
    BY <1>10 DEF UploadDocument, CaptureCurrent, CreateAmendmentRequest, vars
  <1> HIDE DEF GoOn, Begin, End, Stay
  <1>11. Stay \/ Begin \/ GoOn \/ End
    BY <1>3, <1>4, <1>5, <1>7, <1>8, <1>9, <1>10 DEF Next, ReviewAmendment
  <1>12. QED
    BY <1>11 DEF GoOn, Begin, End, Stay

\* A review that stored its decision goes on or has tried to record it.
LEMMA WriterStep ==
    ASSUME TypeOK, ReviewInv, [Next]_vars, NEW v \in Reviews, call[v].pc \in {"docs", "report"}
    PROVE  \/ /\ call'[v].pc \in {"docs", "report"}
              /\ call'[v].request = call[v].request
              /\ call'[v].approved = call[v].approved
           \/ <<call[v].request, Decision(v)>> \in ledger' \cup unlogged'
  <1>1. UnderWay(v)
    BY CallFields DEF PCs
  <1>2. Report(v) \/ Fail(v) => <<call[v].request, Decision(v)>> \in ledger' \cup unlogged'
    BY DEF Report, RecordEntry, Fail
  <1>3. QED
    BY <1>1, <1>2, CallStep DEF UnderWay

\* Whoever writes a decision has its entry still to write, and no other step takes
\* an entry back.
LEMMA LedgerStep ==
    ASSUME TypeOK, ReviewInv, LedgerInv, [Next]_vars
    PROVE  LedgerInv'
  <1> SUFFICES ASSUME NEW q \in Requests, Stored(q)',
                      requests'[q].status # "PENDING_REVIEW"
               PROVE  \/ <<q, requests'[q].status>> \in ledger' \cup unlogged'
                      \/ \E v \in Reviews : /\ call'[v].pc \in {"docs", "report"}
                                            /\ call'[v].request = q
                                            /\ Decision(v)' = requests'[q].status
    BY DEF LedgerInv
  <1>1. ledger \subseteq ledger' /\ unlogged \subseteq unlogged'
    BY StepInv DEF NothingTakenBack
  <1>2. CASE Stored(q) /\ requests'[q].status = requests[q].status
    <2>1. CASE <<q, requests[q].status>> \in ledger \cup unlogged
      BY <1>1, <1>2, <2>1
    <2>2. CASE \E v \in Reviews : /\ call[v].pc \in {"docs", "report"}
                                  /\ call[v].request = q
                                  /\ Decision(v) = requests[q].status
      <3>1. PICK v \in Reviews : /\ call[v].pc \in {"docs", "report"}
                                 /\ call[v].request = q
                                 /\ Decision(v) = requests[q].status
        BY <2>2
      <3>2. CASE <<call[v].request, Decision(v)>> \in ledger' \cup unlogged'
        BY <1>2, <3>1, <3>2
      <3>3. CASE /\ call'[v].pc \in {"docs", "report"}
                 /\ call'[v].request = call[v].request
                 /\ call'[v].approved = call[v].approved
        <4>1. Decision(v)' = Decision(v)
          BY <3>3 DEF Decision
        <4>2. QED
          BY <1>2, <3>1, <3>3, <4>1
      <3>4. QED
        BY <3>1, <3>2, <3>3, WriterStep
    <2>3. QED
      BY <1>2, <2>1, <2>2 DEF LedgerInv
  <1>3. ASSUME NEW v \in Reviews, UpdateStatus(v), call[v].request = q,
               requests'[q].status = Decision(v)
        PROVE  /\ call'[v].pc \in {"docs", "report"} /\ call'[v].request = q
               /\ Decision(v)' = requests'[q].status
    <2> DEFINE step == IF call[v].approved THEN "docs" ELSE "report"
    <2>1. step \in PCs /\ call[v].pc \in PCs /\ Goto(v, step)
      BY <1>3 DEF UpdateStatus, PCs
    <2>2. call'[v].pc = step /\ SameReview(v)
      BY <2>1, GotoCall
    <2>3. QED
      BY <1>3, <2>2 DEF SameReview, Decision
  <1>4. ASSUME NEW v \in Reviews, Report(v), call[v].request = q,
               requests'[q].status = Decision(v)
        PROVE  <<q, requests'[q].status>> \in ledger' \cup unlogged'
    BY <1>4 DEF Report, RecordEntry
  <1>5. QED
    BY <1>2, <1>3, <1>4, StatusStep

(***************************************************************************)
(* When no review of a request is under way, its last decision is in the   *)
(* ledger or its audit record failed, however its reviews disagreed.       *)
(***************************************************************************)
THEOREM DecisionsAreLogged == Spec => []DecisionsLogged
  <1>1. Init => LedgerInv
    BY DEF Init, LedgerInv, Stored
  <1>2. TypeOK /\ ReviewInv /\ LedgerInv /\ [Next]_vars => LedgerInv'
    BY LedgerStep
  <1>3. TypeOK /\ LedgerInv => DecisionsLogged
    <2> SUFFICES ASSUME TypeOK, LedgerInv, NEW q \in Requests, Stored(q),
                        requests[q].status # "PENDING_REVIEW",
                        \A v \in Reviews : UnderWay(v) => call[v].request # q,
                        <<q, requests[q].status>> \notin unlogged
                 PROVE  <<q, requests[q].status>> \in ledger
      BY DEF DecisionsLogged
    <2>1. \A v \in Reviews : call[v].pc \in {"docs", "report"} => UnderWay(v)
      BY UnderWayCall DEF PCs
    <2>2. QED
      BY <2>1 DEF LedgerInv
  <1>4. QED
    BY <1>1, <1>2, <1>3, Informative, PTL DEF Spec
-----------------------------------------------------------------------------
(* The documents                                                           *)

\* Only VerifyDocuments makes a document VERIFIED, after the decision was stored.
LEMMA VerifiedStep ==
    ASSUME TypeOK, ReviewInv, VerifiedByApproval, [Next]_vars
    PROVE  VerifiedByApproval'
  <1> USE DEF histories
  <1>1. NothingTakenBack
    BY StepInv
  <1> SUFFICES ASSUME NEW d \in Docs, docs'[d] = "VERIFIED"
               PROVE  \E q \in Requests : /\ requests'[q] # NoRequest
                                          /\ d \in requests'[q].docs
                                          /\ <<q, "APPROVED">> \in decisions'
    BY DEF VerifiedByApproval
  <1>2. CASE docs[d] = "VERIFIED"
    <2>1. PICK q \in Requests : /\ requests[q] # NoRequest /\ d \in requests[q].docs
                                /\ <<q, "APPROVED">> \in decisions
      BY <1>2 DEF VerifiedByApproval
    <2>2. QED
      BY <1>1, <2>1 DEF NothingTakenBack, RequestsStay
  <1>3. ASSUME NEW v \in Reviews, VerifyDocuments(v), docs[d] # "VERIFIED"
        PROVE  /\ call[v].request \in Requests
               /\ requests'[call[v].request] # NoRequest
               /\ d \in requests'[call[v].request].docs
               /\ <<call[v].request, "APPROVED">> \in decisions'
    <2>1. call[v].pc = "docs"
      BY <1>3 DEF VerifyDocuments
    <2>2. UnderWay(v) /\ call[v].request \in Requests /\ Stored(call[v].request)
      BY <2>1, CallFields DEF PCs
    <2>3. <<call[v].request, "APPROVED">> \in decisions
      BY <2>1, <2>2 DEF ReviewInv, Informed, Decision
    <2>4. d \in requests[call[v].request].docs
      BY <1>3 DEF VerifyDocuments
    <2>5. QED
      BY <1>1, <2>2, <2>3, <2>4 DEF NothingTakenBack, RequestsStay, Stored
  <1>4. ASSUME docs[d] # "VERIFIED"
        PROVE  \E v \in Reviews : VerifyDocuments(v)
    <2>1. ASSUME NEW e \in Docs, UploadDocument(e)
          PROVE  FALSE
      BY <1>4, <2>1 DEF UploadDocument, TypeOK
    <2>2. docs' # docs
      BY <1>4
    <2>3. QED
      BY <2>1, <2>2 DEF Next, ReviewAmendment, CaptureCurrent, CreateAmendmentRequest,
         LoadRequest, LoadProfile, ApplyChange, UpdateProfile, UpdateStatus, Report,
         Fail, ApplyAtOnce, vars
  <1>5. QED
    BY <1>2, <1>3, <1>4

(***************************************************************************)
(* A document is only ever VERIFIED by the approval of a request it is     *)
(* attached to.                                                            *)
(***************************************************************************)
THEOREM DocumentsVerifiedByApproval == Spec => []VerifiedByApproval
  <1>1. Init => VerifiedByApproval
    BY DEF Init, VerifiedByApproval
  <1>2. TypeOK /\ ReviewInv /\ VerifiedByApproval /\ [Next]_vars => VerifiedByApproval'
    BY VerifiedStep
  <1>3. QED
    BY <1>1, <1>2, Informative, PTL DEF Spec
-----------------------------------------------------------------------------
(* The values of the profile                                               *)

\* An approval under way that fails without a trace is one on PostgreSQL.
LEMMA ApprovingStays ==
    ASSUME TypeOK, ReviewInv, [Next]_vars, NEW q \in Requests, q \in applied \/ shared,
           Approving(q)
    PROVE  Approving(q)'
  <1>1. NothingTakenBack
    BY StepInv
  <1>2. CASE q \in applied
    BY <1>1, <1>2 DEF Approving, NothingTakenBack
  <1>3. CASE q \notin applied
    <2>1. PICK v \in Reviews : UnderWay(v) /\ call[v].request = q /\ call[v].approved
      BY <1>3 DEF Approving
    <2>2. CASE call'[v] = call[v]
      BY <2>1, <2>2 DEF Approving, UnderWay
    <2>3. CASE /\ call'[v] \in Call /\ call'[v].request = call[v].request
               /\ call'[v].approved = call[v].approved
      <3>1. UnderWay(v)'
        BY <2>3 DEF UnderWay, Call, Idle, Done
      <3>2. QED
        BY <2>1, <2>3, <3>1 DEF Approving
    <2>4. ~Fail(v)
      BY <1>3 DEF Fail, CallFails
    <2>5. ~Report(v)
      <3>1. call[v].pc # "report"
        BY <1>3, <2>1 DEF ReviewInv, Informed
      <3>2. QED
        BY <3>1 DEF Report
    <2>6. call[v] # Idle
      BY <2>1 DEF UnderWay
    <2>7. QED
      BY <2>2, <2>3, <2>4, <2>5, <2>6, CallStep
  <1>4. QED
    BY <1>2, <1>3

\* What an approval gave it goes on having given.
LEMMA GaveStays ==
    ASSUME TypeOK, ReviewInv, [Next]_vars, NEW q \in Requests, NEW f, NEW x, Gave(q, f, x)
    PROVE  Gave(q, f, x)'
  <1>1. NothingTakenBack
    BY StepInv
  <1>2. Approving(q)'
    BY ApprovingStays DEF Gave, Gives
  <1>3. QED
    BY <1>1, <1>2 DEF Gave, Gives, NothingTakenBack, RequestsStay

\* A value that came from somewhere goes on having come from there.
LEMMA OriginStays ==
    ASSUME TypeOK, ReviewInv, [Next]_vars, NEW f, NEW x, Origin(f, x)
    PROVE  Origin(f, x)'
  <1>1. CASE x = Initial[f]
    BY <1>1 DEF Origin
  <1>2. CASE \E q \in Requests : Gave(q, f, x)
    BY <1>2, GaveStays DEF Origin
  <1>3. CASE /\ x = Torn
             /\ \E q, r \in Requests, y, z \in Values :
                  y # z /\ Gave(q, f, y) /\ Gave(r, f, z)
    <2>1. PICK q \in Requests, r \in Requests, y \in Values, z \in Values :
               y # z /\ Gave(q, f, y) /\ Gave(r, f, z)
      BY <1>3
    <2>2. Gave(q, f, y)' /\ Gave(r, f, z)'
      BY <2>1, GaveStays
    <2>3. QED
      BY <1>3, <2>1, <2>2 DEF Origin
  <1>4. QED
    BY <1>1, <1>2, <1>3 DEF Origin

\* A value that an approval works on at the shared record, or has stored.
LEMMA ApprovalGave ==
    ASSUME TypeOK, ReviewInv, NEW v \in Reviews, call[v].pc = "apply",
           NEW f \in DOMAIN ChangesOf(v), shared
    PROVE  Gave(call[v].request, f, ChangesOf(v)[f]) /\ call[v].request \in Requests
  <1>1. /\ UnderWay(v) /\ call[v].request \in Requests
        /\ requests[call[v].request] # NoRequest
    BY CallFields DEF PCs, Stored
  <1>2. call[v].approved
    BY <1>1 DEF ReviewInv, Informed
  <1>3. QED
    BY <1>1, <1>2 DEF Gave, Gives, Approving, ChangesOf

\* What a step writes into a field of the profile.
LEMMA ProfileStep ==
    ASSUME TypeOK, ReviewInv, [Next]_vars, NEW f \in Fields, profile'[f] # profile[f]
    PROVE  \/ \E v \in Reviews : /\ ApplyChange(v, f) /\ f \in DOMAIN ChangesOf(v)
                                 /\ ChangesOf(v)[f] # Blank
                                 /\ profile'[f] = ChangesOf(v)[f]
           \/ \E v, w \in Reviews : ApplyAtOnce(v, w, f) /\ profile'[f] = Torn
           \/ \E v \in Reviews : /\ UpdateProfile(v) /\ ~shared
                                 /\ \/ profile'[f] = call[v].before[f]
                                    \/ /\ f \in DOMAIN ChangesOf(v)
                                       /\ profile'[f] = ChangesOf(v)[f]
  <1> USE DEF histories
  <1>1. profile' # profile
    OBVIOUS
  <1>2. ASSUME NEW v \in Reviews, NEW g \in Fields, ApplyChange(v, g)
        PROVE  /\ g = f /\ f \in DOMAIN ChangesOf(v) /\ ChangesOf(v)[f] # Blank
               /\ profile'[f] = ChangesOf(v)[f]
    BY <1>2 DEF ApplyChange, Amended
  <1>3. ASSUME NEW v \in Reviews, NEW w \in Reviews, NEW g \in Fields, ApplyAtOnce(v, w, g)
        PROVE  g = f /\ profile'[f] = Torn
    BY <1>3 DEF ApplyAtOnce, TypeOK, Profile
  <1>4. ASSUME NEW v \in Reviews, UpdateProfile(v)
        PROVE  /\ ~shared
               /\ \/ profile'[f] = call[v].before[f]
                  \/ /\ f \in DOMAIN ChangesOf(v)
                     /\ profile'[f] = ChangesOf(v)[f]
    BY <1>4 DEF UpdateProfile, Updated, Live, Amended
  <1>5. \/ \E v \in Reviews, g \in Fields : ApplyChange(v, g)
        \/ \E v, w \in Reviews, g \in Fields : ApplyAtOnce(v, w, g)
        \/ \E v \in Reviews : UpdateProfile(v)
    BY <1>1 DEF Next, ReviewAmendment, UploadDocument, CaptureCurrent,
       CreateAmendmentRequest, LoadRequest, LoadProfile, UpdateStatus, VerifyDocuments,
       Report, Fail, vars
  <1>6. QED
    BY <1>2, <1>3, <1>4, <1>5

\* A step stores, or loads, only values that came from somewhere.
LEMMA OriginStep ==
    ASSUME TypeOK, ReviewInv, OriginInv, [Next]_vars
    PROVE  OriginInv'
  <1> SUFFICES ASSUME NEW f \in Fields
               PROVE  /\ Origin(f, profile[f])'
                      /\ \A v \in Reviews : UnderWay(v)' => Origin(f, call[v].before[f])'
    BY DEF OriginInv
  <1>1. \A x : Origin(f, x) => Origin(f, x)'
    BY OriginStays
  <1>2. ASSUME NEW x, x = profile'[f]
        PROVE  Origin(f, x)'
    <2>1. CASE profile'[f] = profile[f]
      BY <1>1, <1>2, <2>1 DEF OriginInv
    <2>2. ASSUME NEW v \in Reviews, ApplyChange(v, f), f \in DOMAIN ChangesOf(v),
                 x = ChangesOf(v)[f]
          PROVE  Origin(f, x)'
      <3>1. call[v].pc = "apply" /\ f \in call[v].todo
        BY <2>2 DEF ApplyChange
      <3>2. shared
        BY <3>1, CallFields DEF PCs, ReviewInv, Informed
      <3>3. Gave(call[v].request, f, x) /\ call[v].request \in Requests
        BY <2>2, <3>1, <3>2, ApprovalGave
      <3>4. QED
        BY <3>3, GaveStays DEF Origin
    <2>3. ASSUME NEW v \in Reviews, NEW w \in Reviews, ApplyAtOnce(v, w, f),
                 x = Torn
          PROVE  Origin(f, x)'
      <3>1. /\ call[v].pc = "apply" /\ f \in call[v].todo
            /\ call[w].pc = "apply" /\ f \in call[w].todo
            /\ Blank \notin {ChangesOf(v)[f], ChangesOf(w)[f]}
            /\ ChangesOf(v)[f] # ChangesOf(w)[f]
        BY <2>3 DEF ApplyAtOnce
      <3>2. shared /\ f \in DOMAIN ChangesOf(v) /\ f \in DOMAIN ChangesOf(w)
        BY <3>1, CallFields DEF PCs, ReviewInv, Informed
      <3>3. ChangesOf(v)[f] \in Values /\ ChangesOf(w)[f] \in Values
        BY <3>1, <3>2, CallFields DEF PCs
      <3>4. /\ Gave(call[v].request, f, ChangesOf(v)[f]) /\ call[v].request \in Requests
            /\ Gave(call[w].request, f, ChangesOf(w)[f]) /\ call[w].request \in Requests
        BY <3>1, <3>2, ApprovalGave
      <3> DEFINE y == ChangesOf(v)[f]
                 z == ChangesOf(w)[f]
      <3>5. /\ y \in Values /\ z \in Values /\ y # z
            /\ Gave(call[v].request, f, y) /\ Gave(call[w].request, f, z)
        BY <3>1, <3>3, <3>4
      <3>6. Origin(f, Torn)
        BY <3>4, <3>5 DEF Origin
      <3>7. QED
        BY <2>3, <3>6, OriginStays
    <2>4. ASSUME NEW v \in Reviews, UpdateProfile(v),
                 \/ x = call[v].before[f]
                 \/ f \in DOMAIN ChangesOf(v) /\ x = ChangesOf(v)[f]
          PROVE  Origin(f, x)'
      <3>1. call[v].pc \in PCs
        BY <2>4 DEF UpdateProfile, PCs
      <3>2. CASE x = call[v].before[f]
        BY <1>1, <3>1, <3>2, CallFields DEF OriginInv
      <3>3. CASE f \in DOMAIN ChangesOf(v) /\ x = ChangesOf(v)[f]
        <4>1. PICK q \in Requests : q = call[v].request
          BY <3>1, CallFields
        <4>2. requests[q] # NoRequest /\ requests' = requests /\ q \in applied'
          BY <2>4, <3>1, <4>1, CallFields DEF UpdateProfile, Stored
        <4>3. Gave(q, f, x)'
          BY <3>3, <4>1, <4>2 DEF Gave, Gives, Approving, ChangesOf
        <4>4. QED
          BY <4>3 DEF Origin
      <3>4. QED
        BY <2>4, <3>2, <3>3
    <2>5. QED
      BY <1>2, <2>1, <2>2, <2>3, <2>4, ProfileStep
  <1>3. ASSUME NEW v \in Reviews, UnderWay(v)', NEW x, x = call'[v].before[f]
        PROVE  Origin(f, x)'
    <2>1. CASE UnderWay(v) /\ call'[v].before \in {profile, call[v].before}
      BY <1>1, <1>3, <2>1 DEF OriginInv
    <2>2. CASE call'[v].before = Initial
      BY <1>3, <2>2 DEF Origin
    <2>3. CASE call'[v] = call[v]
      BY <1>1, <1>3, <2>3 DEF UnderWay, OriginInv
    <2>4. QED
      BY <1>3, <2>1, <2>2, <2>3, CallStep DEF UnderWay
  <1>4. QED
    BY <1>2, <1>3 DEF Origin, Gave, Gives

(***************************************************************************)
(* Whatever the administrators do at once and whatever fails, a field of   *)
(* the profile has the first value or one that an approval gave it.        *)
(***************************************************************************)
THEOREM ProfileComesFromApprovals == Spec => []ProfileFromApprovals
  <1>1. Init => OriginInv
    BY DEF Init, OriginInv, Origin, UnderWay
  <1>2. TypeOK /\ ReviewInv /\ OriginInv /\ [Next]_vars => OriginInv'
    BY OriginStep
  <1>3. OriginInv => ProfileFromApprovals
    <2> SUFFICES ASSUME OriginInv, NEW f \in Fields
                 PROVE  \/ profile[f] = Initial[f]
                        \/ \E q \in Requests : Gives(q, f, profile[f])
                        \/ /\ profile[f] = Torn
                           /\ \E q, r \in Requests, x, y \in Values :
                                x # y /\ Gives(q, f, x) /\ Gives(r, f, y)
      BY DEF ProfileFromApprovals
    <2>1. Origin(f, profile[f])
      BY DEF OriginInv
    <2>2. QED
      BY <2>1 DEF Origin, Gave
  <1>4. QED
    BY <1>1, <1>2, <1>3, Informative, PTL DEF Spec
-----------------------------------------------------------------------------
(* The memory store loses no amendment                                     *)

\* A review that has gone through a field of the shared record made the
\* change reach it.
LEMMA ReachedBefore ==
    ASSUME TypeOK, ReviewInv, [Next]_vars, shared, NEW v \in Reviews,
           call[v].pc = "apply", NEW f, f \notin call[v].todo, NEW x, NEW q \in Requests,
           q = call[v].request, f \in DOMAIN ChangesOf(v), x = ChangesOf(v)[f]
    PROVE  Reached(q, f, x)
  <1>1. Gave(q, f, x)
    BY ApprovalGave
  <1>2. QED
    BY <1>1 DEF Reached, Gave

\* A change that has just reached the profile is the value of its field.
LEMMA ReachedStep ==
    ASSUME TypeOK, ReviewInv, [Next]_vars, \A q \in applied : requests[q] # NoRequest,
           shared, NEW f \in Fields, NEW q \in Requests, NEW x \in Values,
           Reached(q, f, x)', profile'[f] = profile[f]
    PROVE  \/ Reached(q, f, x)
           \/ profile'[f] = Torn
           \/ profile'[f] = x
  <1> USE DEF histories
  <1>1. NothingTakenBack
    BY StepInv
  <1>2. /\ f \in DOMAIN requests'[q].changes
        /\ requests'[q].changes[f] = x
    BY DEF Reached, Gives
  <1>3. requests[q] # NoRequest => /\ f \in DOMAIN requests[q].changes
                                   /\ requests[q].changes[f] = x
    BY <1>1, <1>2 DEF NothingTakenBack, RequestsStay
  <1>4. CASE q \in applied
    BY <1>3, <1>4 DEF Reached, Gives, Approving
  <1>5. CASE q \in applied' /\ q \notin applied
    <2>1. PICK v \in Reviews : UpdateProfile(v)
      BY <1>5 DEF Next, ReviewAmendment, UploadDocument, CaptureCurrent,
         CreateAmendmentRequest, LoadRequest, LoadProfile, ApplyChange, UpdateStatus,
         VerifyDocuments, Report, Fail, ApplyAtOnce, vars
    <2>2. q = call[v].request /\ call[v].pc = "apply" /\ call[v].todo = {}
      BY <1>5, <2>1 DEF UpdateProfile
    <2>3. requests[q] # NoRequest
      BY <2>2, CallFields DEF PCs, Stored
    <2>4. QED
      BY <1>3, <2>2, <2>3, ReachedBefore DEF ChangesOf
  <1>6. ASSUME NEW v \in Reviews, call'[v].pc = "apply", call'[v].request = q,
               f \notin call'[v].todo
        PROVE  Reached(q, f, x) \/ profile'[f] = Torn \/ profile'[f] = x
    <2>1. UnderWay(v) /\ call[v].request = q
      <3>1. call'[v] # Done
        BY <1>6 DEF Done
      <3>2. CASE call'[v] = call[v]
        BY <1>6, <3>2, CallFields DEF PCs
      <3>3. QED
        BY <1>6, <3>1, <3>2, CallStep
    <2>2. call[v].pc \in PCs
      BY <2>1, UnderWayCall
    <2>3. requests[q] # NoRequest
      BY <2>1, <2>2, CallFields DEF Stored
    <2>4. f \in DOMAIN ChangesOf(v) /\ x = ChangesOf(v)[f]
      BY <1>3, <2>1, <2>3 DEF ChangesOf
    <2>5. CASE call[v].pc = "apply" /\ f \notin call[v].todo
      BY <2>1, <2>4, <2>5, ReachedBefore
    <2>6. ASSUME LoadProfile(v)
          PROVE  FALSE
      <3>1. call'[v].todo = DOMAIN ChangesOf(v)
        BY <2>6, LoadProfileCall DEF Live
      <3>2. QED
        BY <1>6, <2>4, <3>1
    <2>7. ASSUME NEW g \in Fields, ApplyChange(v, g),
                 ~(call[v].pc = "apply" /\ f \notin call[v].todo)
          PROVE  profile'[f] = x
      <3>1. f = g
        BY <1>6, <2>7, ApplyChangeCall DEF ApplyChange
      <3>2. x # Blank
        BY AmendmentAssumption
      <3>3. profile'[f] = ChangesOf(v)[f]
        BY <2>4, <2>7, <3>1, <3>2 DEF ApplyChange, Amended
      <3>4. QED
        BY <2>4, <3>3
    <2>8. ASSUME NEW u \in Reviews, NEW w \in Reviews, NEW g \in Fields,
                 ApplyAtOnce(u, w, g), v \in {u, w},
                 ~(call[v].pc = "apply" /\ f \notin call[v].todo)
          PROVE  profile'[f] = Torn
      <3>1. f = g
        BY <1>6, <2>8, ApplyAtOnceCall
      <3>2. QED
        BY <2>8, <3>1 DEF ApplyAtOnce, TypeOK, Profile
    <2>9. CASE ~(call[v].pc = "apply" /\ f \notin call[v].todo)
      <3>1. call'[v] # call[v] /\ call'[v] # Done /\ call[v] # Idle
        BY <1>6, <2>1, <2>9 DEF Done, UnderWay
      <3>2. Applying(v)
        BY <1>6, <3>1, CallStep
      <3>3. QED
        BY <2>6, <2>7, <2>8, <2>9, <3>2 DEF Applying
    <2>10. QED
      BY <2>5, <2>9
  <1>7. QED
    BY <1>4, <1>5, <1>6 DEF Reached

\* On the memory store a field that was amended keeps the value of an amendment:
\* whoever assigns it next is amending it too.
LEMMA StayStep ==
    ASSUME TypeOK, ReviewInv, StayInv, [Next]_vars
    PROVE  StayInv'
  <1> USE DEF histories
  <1>1. NothingTakenBack
    BY StepInv
  <1>2. ASSUME NEW q \in applied'
        PROVE  requests'[q] # NoRequest
    <2>1. CASE q \in applied
      <3>1. requests[q] # NoRequest /\ q \in Requests
        BY <2>1 DEF StayInv, TypeOK
      <3>2. QED
        BY <1>1, <3>1 DEF NothingTakenBack, RequestsStay
    <2>2. CASE q \notin applied
      <3>1. PICK v \in Reviews : UpdateProfile(v)
        BY <1>2, <2>2 DEF Next, ReviewAmendment, UploadDocument, CaptureCurrent,
           CreateAmendmentRequest, LoadRequest, LoadProfile, ApplyChange, UpdateStatus,
           VerifyDocuments, Report, Fail, ApplyAtOnce, vars
      <3>2. q = call[v].request /\ call[v].pc \in PCs /\ requests' = requests
        BY <1>2, <2>2, <3>1 DEF UpdateProfile, PCs
      <3>3. QED
        BY <3>2, CallFields DEF Stored
    <2>3. QED
      BY <2>1, <2>2
  <1>3. ASSUME shared, NEW f \in Fields, NEW q \in Requests, NEW x \in Values,
               Reached(q, f, x)', NEW z, z = profile'[f]
        PROVE  z = Torn \/ \E r \in Requests : Gives(r, f, z)'
    <2>1. CASE profile'[f] = profile[f]
      <3>1. CASE Reached(q, f, x)
        <4>1. z = Torn \/ \E r \in Requests : Gives(r, f, z)
          BY <1>3, <2>1, <3>1 DEF StayInv
        <4>2. \A r \in Requests : Gives(r, f, z) => Gives(r, f, z)'
          BY <1>3, GaveStays DEF Gave
        <4>3. QED
          BY <4>1, <4>2
      <3>2. CASE z = x
        BY <1>3, <3>2 DEF Reached
      <3>3. QED
        BY <1>3, <2>1, <3>1, <3>2, ReachedStep DEF StayInv
    <2>2. ASSUME NEW v \in Reviews, ApplyChange(v, f), f \in DOMAIN ChangesOf(v),
                 z = ChangesOf(v)[f]
          PROVE  \E r \in Requests : Gives(r, f, z)'
      <3>1. call[v].pc = "apply"
        BY <2>2 DEF ApplyChange
      <3>2. Gave(call[v].request, f, z) /\ call[v].request \in Requests
        BY <1>3, <2>2, <3>1, ApprovalGave
      <3>3. QED
        BY <3>2, GaveStays DEF Gave
    <2>3. QED
      BY <1>3, <2>1, <2>2, ProfileStep
  <1>4. shared' = shared
    BY <1>1 DEF NothingTakenBack
  <1>5. ASSUME shared, NEW f \in Fields, NEW q \in Requests, NEW x \in Values,
               Reached(q, f, x)'
        PROVE  (profile[f] = Torn \/ \E r \in Requests : Gives(r, f, profile[f]))'
    BY <1>3, <1>5 DEF Gives
  <1>6. QED
    BY <1>2, <1>4, <1>5 DEF StayInv

(***************************************************************************)
(* In the memory store an amendment of a field that was stored is undone   *)
(* by nothing but another amendment of the field, whatever reviews run at  *)
(* once.                                                                   *)
(***************************************************************************)
THEOREM SharedAmendmentsAreKept == Spec => []SharedAmendmentsStay
  <1>1. Init => StayInv
    BY DEF Init, StayInv, Reached, Gives
  <1>2. TypeOK /\ ReviewInv /\ StayInv /\ [Next]_vars => StayInv'
    BY StayStep
  <1>3. TypeOK /\ StayInv => SharedAmendmentsStay
    BY DEF StayInv, SharedAmendmentsStay, AmendmentsStay, Reached, TypeOK
  <1>4. QED
    BY <1>1, <1>2, <1>3, Informative, PTL DEF Spec
-----------------------------------------------------------------------------
(* Reviews one after the other lose no amendment                           *)

\* No two reviews are under way together.
OneReviewAtATime == \A v, w \in Reviews : UnderWay(v) /\ UnderWay(w) => v = w

\* In PostgreSQL the profile a review changes is the one that is stored, and a
\* field that was amended has the value of an amendment that was stored.
SerialInv ==
    ~shared =>
        /\ \A v \in Reviews : call[v].pc = "apply" => call[v].before = profile
        /\ \A f \in Fields :
             (\E q \in applied, x \in Values : Gives(q, f, x))
             => \E r \in applied : Gives(r, f, profile[f])

\* In PostgreSQL only UpdateProfile changes the profile.
LEMMA PostgresProfileStep ==
    ASSUME TypeOK, ReviewInv, [Next]_vars, ~shared, profile' # profile \/ applied' # applied
    PROVE  \E v \in Reviews : UpdateProfile(v)
  <1> USE DEF histories
  <1>1. ASSUME NEW v \in Reviews, call[v].pc = "apply"
        PROVE  call[v].todo = {}
    BY <1>1, CallFields DEF PCs, ReviewInv, Informed
  <1>2. ASSUME NEW v \in Reviews, NEW f \in Fields, ApplyChange(v, f)
        PROVE  FALSE
    BY <1>1, <1>2 DEF ApplyChange
  <1>3. ASSUME NEW v \in Reviews, NEW w \in Reviews, NEW f \in Fields, ApplyAtOnce(v, w, f)
        PROVE  FALSE
    BY <1>1, <1>3 DEF ApplyAtOnce
  <1>4. QED
    BY <1>2, <1>3 DEF Next, ReviewAmendment, UploadDocument, CaptureCurrent,
       CreateAmendmentRequest, LoadRequest, LoadProfile, UpdateStatus, VerifyDocuments,
       Report, Fail, vars

\* A change that was stored was requested and approved before the step.
LEMMA AppliedGave ==
    ASSUME TypeOK, ReviewInv, StayInv, [Next]_vars, NEW q \in applied,
           NEW f, NEW x, Gives(q, f, x)'
    PROVE  Gives(q, f, x)
  <1>1. q \in Requests /\ requests[q] # NoRequest
    BY DEF TypeOK, StayInv
  <1>2. NothingTakenBack
    BY StepInv
  <1>3. QED
    BY <1>1, <1>2 DEF Gives, Approving, NothingTakenBack, RequestsStay

\* Without overlap the profile that a review writes back is the one it loaded, but
\* for its own changes.
LEMMA SerialStep ==
    ASSUME TypeOK, ReviewInv, StayInv, OneReviewAtATime, SerialInv, [Next]_vars
    PROVE  SerialInv'
  <1>1. NothingTakenBack
    BY StepInv
  <1> SUFFICES ASSUME ~shared
               PROVE  /\ \A v \in Reviews : call'[v].pc = "apply" =>
                             call'[v].before = profile'
                      /\ \A f \in Fields :
                           (\E q \in applied', x \in Values : Gives(q, f, x)')
                           => \E r \in applied' : Gives(r, f, profile[f])'
    BY <1>1 DEF SerialInv, NothingTakenBack
  <1>2. ASSUME NEW v \in Reviews, UpdateProfile(v)
        PROVE  /\ call[v].pc = "apply" /\ call'[v].pc = "status" /\ OthersStay(v)
               /\ call[v].request \in Requests /\ requests[call[v].request] # NoRequest
               /\ UnderWay(v)
               /\ profile' = Amended(profile, ChangesOf(v), Fields)
               /\ applied' = applied \cup {call[v].request}
               /\ requests' = requests
    <2>1. call[v].pc = "apply" /\ Goto(v, "status")
      BY <1>2 DEF UpdateProfile
    <2>2. /\ UnderWay(v) /\ call[v].request \in Requests
          /\ requests[call[v].request] # NoRequest
      BY <2>1, CallFields DEF PCs, Stored
    <2>3. call'[v].pc = "status" /\ OthersStay(v)
      BY <2>1, GotoCall DEF PCs
    <2>4. call[v].before = profile
      BY <2>1 DEF SerialInv
    <2>5. QED
      BY <1>2, <2>1, <2>2, <2>3, <2>4 DEF UpdateProfile, Updated, Live
  <1>3. ASSUME NEW v \in Reviews, call'[v].pc = "apply"
        PROVE  call'[v].before = profile'
    <2>1. CASE profile' # profile
      <3>1. PICK w \in Reviews : UpdateProfile(w)
        BY <2>1, PostgresProfileStep
      <3>2. w # v /\ call'[v] = call[v]
        BY <1>2, <1>3, <3>1 DEF OthersStay
      <3>3. UnderWay(v) /\ UnderWay(w)
        BY <1>2, <1>3, <3>1, <3>2, CallFields DEF PCs
      <3>4. QED
        BY <3>2, <3>3 DEF OneReviewAtATime
    <2>2. CASE profile' = profile
      <3>1. CASE call'[v] = call[v]
        BY <1>3, <2>2, <3>1 DEF SerialInv
      <3>2. CASE call'[v] # call[v]
        <4>1. call'[v] # Done
          BY <1>3 DEF Done
        <4>2. Applying(v)
          BY <1>3, <3>2, <4>1, CallStep
        <4>3. ASSUME NEW u \in Reviews, call[u].pc = "apply"
              PROVE  call[u].todo = {}
          BY <4>3, CallFields DEF PCs, ReviewInv, Informed
        <4>4. LoadProfile(v)
          BY <4>2, <4>3 DEF Applying, ApplyChange, ApplyAtOnce
        <4>5. QED
          BY <2>2, <4>4, LoadProfileCall
      <3>3. QED
        BY <3>1, <3>2
    <2>3. QED
      BY <2>1, <2>2
  <1>4. ASSUME NEW f \in Fields, NEW q \in applied', NEW x \in Values, Gives(q, f, x)',
               NEW z, z = profile'[f]
        PROVE  \E r \in applied' : Gives(r, f, z)'
    <2>1. ASSUME NEW p \in applied, NEW y \in Values, Gives(p, f, y), z = profile[f]
          PROVE  \E r \in applied' : Gives(r, f, z)'
      <3>1. PICK r \in applied : Gives(r, f, z)
        BY <2>1 DEF SerialInv
      <3>2. Gives(r, f, z)'
        BY <3>1, GaveStays DEF Gave, TypeOK
      <3>3. QED
        BY <1>1, <3>2 DEF NothingTakenBack
    <2>2. CASE applied' = applied /\ profile' = profile
      <3>1. Gives(q, f, x)
        BY <1>4, <2>2, AppliedGave
      <3>2. QED
        BY <1>4, <2>1, <2>2, <3>1
    <2>3. CASE ~(applied' = applied /\ profile' = profile)
      <3>1. PICK v \in Reviews : UpdateProfile(v)
        BY <2>3, PostgresProfileStep
      <3>p. PICK p \in Requests : p = call[v].request
        BY <1>2, <3>1
      <3>2. /\ p \in applied' /\ requests[p] # NoRequest
            /\ applied' = applied \cup {p} /\ requests' = requests
            /\ ChangesOf(v) = requests[p].changes
            /\ profile' = Amended(profile, requests[p].changes, Fields)
        BY <1>2, <3>1, <3>p DEF ChangesOf
      <3>3. CASE f \in DOMAIN requests[p].changes /\ requests[p].changes[f] # Blank
        <4>1. z = requests[p].changes[f]
          BY <1>4, <3>2, <3>3 DEF Amended
        <4>2. Gives(p, f, z)'
          BY <3>2, <3>3, <4>1 DEF Gives, Approving
        <4>3. QED
          BY <3>2, <4>2
      <3>4. CASE ~(f \in DOMAIN requests[p].changes /\ requests[p].changes[f] # Blank)
        <4>1. z = profile[f]
          BY <1>4, <3>2, <3>4 DEF Amended
        <4>2. x # Blank
          BY AmendmentAssumption
        <4>3. q # p
          BY <1>4, <3>2, <3>4, <4>2 DEF Gives
        <4>4. q \in applied
          BY <3>2, <4>3
        <4>5. QED
          BY <1>4, <2>1, <4>1, <4>4, AppliedGave
      <3>5. QED
        BY <3>3, <3>4
    <2>4. QED
      BY <2>2, <2>3
  <1>5. ASSUME NEW f \in Fields, NEW q \in applied', NEW x \in Values, Gives(q, f, x)'
        PROVE  \E r \in applied' : Gives(r, f, profile[f])'
    BY <1>4, <1>5 DEF Gives
  <1>6. QED
    BY <1>3, <1>5

(***************************************************************************)
(* If no two reviews are under way together, no amendment is lost, in      *)
(* PostgreSQL neither, whatever calls fail and in whatever order requests  *)
(* are created and reviewed, more than once and with different decisions:  *)
(* the lost update of the run amendment_lost takes two overlapping         *)
(* reviews.                                                                *)
(***************************************************************************)
THEOREM SerialReviewsLoseNothing ==
    Spec /\ []OneReviewAtATime => []AmendmentsStay
  <1>1. Init => StayInv /\ SerialInv
    BY DEF Init, StayInv, Reached, Gives, SerialInv, Idle
  <1>2. TypeOK /\ ReviewInv /\ StayInv /\ [Next]_vars => StayInv'
    BY StayStep
  <1>3. TypeOK /\ ReviewInv /\ StayInv /\ OneReviewAtATime /\ SerialInv /\ [Next]_vars
          => SerialInv'
    BY SerialStep
  <1>4. TypeOK /\ SerialInv => (shared \/ AmendmentsStay)
    BY DEF SerialInv, AmendmentsStay, TypeOK
  <1>5. SharedAmendmentsStay => (shared => AmendmentsStay)
    BY DEF SharedAmendmentsStay
  <1>6. QED
    BY <1>1, <1>2, <1>3, <1>4, <1>5, Informative, SharedAmendmentsAreKept, PTL DEF Spec
===============================================================================
