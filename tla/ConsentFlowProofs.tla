-------------------------- MODULE ConsentFlowProofs --------------------------
(***************************************************************************)
(* Theorems about ConsentFlow, for every set of clients, requests,         *)
(* identities and scopes, whether or not repository calls fail.            *)
(***************************************************************************)
EXTENDS ConsentFlow, TLAPS

-----------------------------------------------------------------------------
(* Type correctness                                                        *)

Steps == {"claims", "result", "settle", "finish"}

\* An entry of the ledger keeps its type.
LEMMA RecordType ==
    ASSUME NEW a, NEW x, Record(a, x), audit \subseteq AuditEvent,
           [action |-> a, target |-> x] \in AuditEvent
    PROVE  audit' \subseteq AuditEvent
  BY DEF Record

\* A call that is under way is a Call record on a request that exists.
LEMMA BusyCall ==
    ASSUME TypeOK, NEW c \in Clients, call[c] # Idle
    PROVE  /\ call[c] \in Call
           /\ call[c].request \in Requests
           /\ call[c].identity \in Identities
           /\ Exists(call[c].request)
           /\ requests[call[c].request] \in Request
  BY DEF TypeOK, Call, Exists

\* Only a call that is under way has a next step.
LEMMA StepMeansBusy ==
    ASSUME NEW c \in Clients, NEW step \in Steps, call[c].pc = step
    PROVE  call[c] # Idle
  BY DEF Idle, Steps

\* The call of c goes on with its next step, or returns.
LEMMA GotoType ==
    ASSUME TypeOK, NEW c \in Clients, call[c] # Idle, NEW step \in Steps,
           call' = [call EXCEPT ![c].pc = step]
    PROVE  /\ call' \in [Clients -> Call \cup {Idle}]
           /\ call'[c] \in Call
           /\ call'[c].pc = step
           /\ call'[c].request = call[c].request
           /\ call'[c].identity = call[c].identity
           /\ call'[c].approved = call[c].approved
           /\ call'[c].claims = call[c].claims
           /\ call'[c].valid = call[c].valid
           /\ call'[c].active = call[c].active
           /\ \A d \in Clients \ {c} : call'[d] = call[d]
  <1>1. call[c] \in Call
    BY DEF TypeOK
  <1>2. call' = [call EXCEPT ![c] = [call[c] EXCEPT !.pc = step]]
    OBVIOUS
  <1>3. [call[c] EXCEPT !.pc = step] \in Call
    BY <1>1 DEF Call, Steps
  <1>4. call'[c] = [call[c] EXCEPT !.pc = step] /\ \A d \in Clients \ {c} : call'[d] = call[d]
    BY <1>2 DEF TypeOK
  <1>5. call' \in [Clients -> Call \cup {Idle}]
    BY <1>2, <1>3 DEF TypeOK
  <1>6. QED
    BY <1>1, <1>3, <1>4, <1>5 DEF Call

\* A call that returns leaves the others alone.
LEMMA ReturnType ==
    ASSUME TypeOK, NEW c \in Clients, call' = [call EXCEPT ![c] = Idle]
    PROVE  /\ call' \in [Clients -> Call \cup {Idle}]
           /\ call'[c] = Idle
           /\ \A d \in Clients \ {c} : call'[d] = call[d]
  BY DEF TypeOK

\* The claims a scope list discloses come from its scopes.
LEMMA DiscloseType ==
    ASSUME NEW scopes, NEW p \in BOOLEAN
    PROVE  /\ Disclose(scopes, p) \in SUBSET ClaimNames
           /\ Disclose(scopes, p) \subseteq UNION {ClaimsOf(sc) : sc \in scopes}
  <1>1. "identity_valid" \in ClaimNames
    <2>1. ClaimsOf("identity_valid") = {"identity_valid"}
      BY DEF ClaimsOf
    <2>2. QED
      BY <2>1 DEF ClaimNames
  <1>2. QED
    BY <1>1 DEF Disclose

\* The call LoadRequest begins.
Begun(r, i, approved) ==
    [pc |-> IF approved THEN "claims" ELSE "settle",
     request |-> r, identity |-> i, approved |-> approved,
     claims |-> {}, valid |-> FALSE, active |-> status[i] = "ACTIVE"]

\* LoadRequest begins an answer to a request that exists.
LEMMA LoadType ==
    ASSUME TypeOK, NEW c \in Clients, NEW r \in Requests, NEW i \in Identities,
           NEW approved \in BOOLEAN, LoadRequest(c, r, i, approved)
    PROVE  /\ Begun(r, i, approved) \in Call
           /\ Begun(r, i, approved) # Idle
           /\ call' \in [Clients -> Call \cup {Idle}]
           /\ call'[c] = Begun(r, i, approved)
           /\ \A d \in Clients \ {c} : call'[d] = call[d]
  <1>1. Begun(r, i, approved) \in Call
    BY DEF Begun, Call
  <1>2. call' = [call EXCEPT ![c] = Begun(r, i, approved)]
    BY DEF LoadRequest, Begun
  <1>3. Begun(r, i, approved) # Idle
    <2>1. Begun(r, i, approved).pc \in Steps
      BY DEF Begun, Steps
    <2>2. QED
      BY <2>1 DEF Idle, Steps
  <1>4. QED
    BY <1>1, <1>2, <1>3 DEF TypeOK

\* What ReadClaims leaves in the call.
LEMMA ReadType ==
    ASSUME TypeOK, NEW c \in Clients, ReadClaims(c)
    PROVE  /\ call[c] # Idle /\ call[c].pc = "claims"
           /\ call' \in [Clients -> Call \cup {Idle}]
           /\ call'[c] \in Call
           /\ call'[c].pc = "result"
           /\ call'[c].request = call[c].request
           /\ call'[c].identity = call[c].identity
           /\ call'[c].approved = call[c].approved
           /\ call'[c].active = call[c].active
           /\ call'[c].claims \subseteq
                UNION {ClaimsOf(sc) : sc \in requests[call[c].request].scopes}
           /\ call'[c].valid => status[call[c].identity] = "ACTIVE"
           /\ \A d \in Clients \ {c} : call'[d] = call[d]
  <1>1. call[c] # Idle /\ call[c].pc = "claims" /\ call[c] \in Call
    BY StepMeansBusy, BusyCall DEF ReadClaims, Steps
  <1>2. PICK hasProfile \in BOOLEAN,
             valid \in {status[call[c].identity] = "ACTIVE"}
                          \cup (IF StoreMayFail THEN {FALSE} ELSE {}) :
          call' = [call EXCEPT
            ![c].pc = "result",
            ![c].claims = Disclose(requests[call[c].request].scopes, hasProfile),
            ![c].valid = valid]
    BY DEF ReadClaims
  <1> DEFINE disclosed == Disclose(requests[call[c].request].scopes, hasProfile)
             next == [call[c] EXCEPT !.pc = "result", !.claims = disclosed,
                                     !.valid = valid]
  <1>3. valid \in BOOLEAN /\ (valid => status[call[c].identity] = "ACTIVE")
    BY <1>2
  <1>4. /\ disclosed \in SUBSET ClaimNames
        /\ disclosed \subseteq
             UNION {ClaimsOf(sc) : sc \in requests[call[c].request].scopes}
    BY DiscloseType
  <1> HIDE DEF disclosed
  <1>5. /\ next \in Call
        /\ next.pc = "result" /\ next.request = call[c].request
        /\ next.identity = call[c].identity /\ next.approved = call[c].approved
        /\ next.active = call[c].active /\ next.claims = disclosed
        /\ next.valid = valid
    BY <1>1, <1>3, <1>4 DEF Call
  <1>6. call' = [call EXCEPT ![c] = next]
    BY <1>2 DEF disclosed
  <1> HIDE DEF next
  <1>7. call'[c] = next /\ \A d \in Clients \ {c} : call'[d] = call[d]
    BY <1>6 DEF TypeOK
  <1>8. call' \in [Clients -> Call \cup {Idle}]
    BY <1>5, <1>6 DEF TypeOK
  <1>9. QED
    BY <1>1, <1>3, <1>4, <1>5, <1>7, <1>8

\* What an update of a request's status leaves.
LEMMA SettleType ==
    ASSUME TypeOK, NEW c \in Clients, UpdateRequestStatus(c)
    PROVE  /\ call[c] # Idle /\ call[c].pc = "settle"
           /\ requests' \in [Requests -> Request \cup {NoRequest}]
           /\ requests'[call[c].request] \in Request
           /\ requests'[call[c].request].status = Decision(call[c].approved)
           /\ requests'[call[c].request].identity = requests[call[c].request].identity
           /\ requests'[call[c].request].scopes = requests[call[c].request].scopes
           /\ \A r \in Requests \ {call[c].request} : requests'[r] = requests[r]
  <1> DEFINE q == call[c].request
             settled == [requests[q] EXCEPT !.status = Decision(call[c].approved)]
  <1>1. /\ call[c] # Idle /\ call[c].pc = "settle"
        /\ q \in Requests /\ requests[q] \in Request
    BY StepMeansBusy, BusyCall DEF UpdateRequestStatus, Steps
  <1>2. Decision(call[c].approved) \in RequestStatuses
    BY DEF Decision, RequestStatuses
  <1>3. /\ settled \in Request
        /\ settled.status = Decision(call[c].approved)
        /\ settled.identity = requests[q].identity
        /\ settled.scopes = requests[q].scopes
    BY <1>1, <1>2 DEF Request
  <1>4. requests' = [requests EXCEPT ![q] = settled]
    BY DEF UpdateRequestStatus
  <1> HIDE DEF settled
  <1>5. /\ requests'[q] = settled
        /\ \A r \in Requests \ {q} : requests'[r] = requests[r]
        /\ requests' \in [Requests -> Request \cup {NoRequest}]
    BY <1>1, <1>3, <1>4 DEF TypeOK
  <1>6. QED
    BY <1>1, <1>3, <1>5

\* What an administrator's update of a status leaves of a call.
LEMMA StatusType ==
    ASSUME TypeOK, NEW i \in Identities, NEW st \in IdentityStatuses,
           UpdateStatus(i, st), NEW c \in Clients
    PROVE  /\ call'[c] \in Call \cup {Idle}
           /\ call[c] = Idle => call'[c] = Idle
           /\ call[c] # Idle =>
                /\ call'[c] # Idle
                /\ call'[c].pc = call[c].pc
                /\ call'[c].request = call[c].request
                /\ call'[c].identity = call[c].identity
                /\ call'[c].approved = call[c].approved
                /\ call'[c].claims = call[c].claims
                /\ call'[c].valid = call[c].valid
                /\ call[c].active => call'[c].active
                /\ status'[call[c].identity] = "ACTIVE" =>
                     status[call[c].identity] = "ACTIVE" \/ call'[c].active
  <1>1. call'[c] = IF call[c] # Idle /\ call[c].identity = i
                     THEN [call[c] EXCEPT !.active = @ \/ st = "ACTIVE"]
                     ELSE call[c]
    BY DEF UpdateStatus
  <1>2. CASE call[c] # Idle /\ call[c].identity = i
    <2>1. call[c] \in Call
      BY <1>2, BusyCall
    <2>2. call'[c] = [call[c] EXCEPT !.active = (call[c].active \/ st = "ACTIVE")]
      BY <1>1, <1>2
    <2>3. call'[c] \in Call /\ call'[c].pc \in Steps
      BY <2>1, <2>2 DEF Call, Steps
    <2>4. call'[c] # Idle
      BY <2>3 DEF Idle, Steps
    <2>5. status'[i] = st
      BY DEF UpdateStatus, TypeOK
    <2>6. call'[c].active = (call[c].active \/ st = "ACTIVE")
      BY <2>1, <2>2 DEF Call
    <2>7. QED
      BY <1>2, <2>1, <2>2, <2>3, <2>4, <2>5, <2>6 DEF Call
  <1>3. CASE ~(call[c] # Idle /\ call[c].identity = i)
    <2>1. call'[c] = call[c] /\ call[c] \in Call \cup {Idle}
      BY <1>1, <1>3 DEF TypeOK
    <2>2. call[c] # Idle => status'[call[c].identity] = status[call[c].identity]
      BY <1>3, BusyCall DEF UpdateStatus, TypeOK
    <2>3. QED
      BY <2>1, <2>2
  <1>4. QED
    BY <1>2, <1>3

(***************************************************************************)
(* A request is never deleted, and never changes its identity or scopes;   *)
(* a settled one may change its decision but is never pending again.       *)
(***************************************************************************)
LEMMA RequestsStable ==
    ASSUME TypeOK, [Next]_vars, NEW r \in Requests, Exists(r)
    PROVE  /\ Exists(r)'
           /\ requests'[r].identity = requests[r].identity
           /\ requests'[r].scopes = requests[r].scopes
           /\ requests[r].status # "PENDING" => requests'[r].status # "PENDING"
  <1>1. ASSUME NEW q \in Requests, NEW i \in Identities, NEW scopes \in ScopeChoices,
               CreateRequest(q, i, scopes)
        PROVE  requests'[r] = requests[r]
    BY <1>1 DEF CreateRequest, TypeOK, Exists
  <1>2. ASSUME NEW c \in Clients, UpdateRequestStatus(c)
        PROVE  /\ Exists(r)'
               /\ requests'[r].identity = requests[r].identity
               /\ requests'[r].scopes = requests[r].scopes
               /\ requests[r].status # "PENDING" => requests'[r].status # "PENDING"
    <2>1. CASE r = call[c].request
      BY <1>2, <2>1, SettleType, NoRequestAssumption DEF Exists, Decision
    <2>2. CASE r # call[c].request
      BY <1>2, <2>2, SettleType DEF Exists
    <2>3. QED
      BY <2>1, <2>2
  <1>3. requests' = requests =>
          /\ Exists(r)'
          /\ requests'[r].identity = requests[r].identity
          /\ requests'[r].scopes = requests[r].scopes
          /\ requests[r].status # "PENDING" => requests'[r].status # "PENDING"
    BY DEF Exists
  <1>4. CASE requests' = requests
    BY <1>3, <1>4
  <1>5. CASE requests' # requests
    <2>1. \/ \E q \in Requests, i \in Identities, scopes \in ScopeChoices :
               CreateRequest(q, i, scopes)
          \/ \E c \in Clients : UpdateRequestStatus(c)
      BY <1>5 DEF Next, RespondRequest, vars, AnnounceRequest, LoadRequest, ReadClaims,
         CreateResult, Finish, Fail, UpdateStatus
    <2>2. QED
      BY <1>1, <1>2, <2>1 DEF Exists
  <1>6. QED
    BY <1>4, <1>5

\* Every step keeps the type.
LEMMA TypeStep == TypeOK /\ [Next]_vars => TypeOK'
  <1> SUFFICES ASSUME TypeOK, [Next]_vars
               PROVE  TypeOK'
    OBVIOUS
  <1>0. \A r \in Requests : requests[r] # NoRequest => requests'[r] # NoRequest
    BY RequestsStable DEF Exists
  <1>1. ASSUME NEW r \in Requests, NEW i \in Identities, NEW scopes \in ScopeChoices,
               CreateRequest(r, i, scopes)
        PROVE  TypeOK'
    <2>1. [identity |-> i, scopes |-> scopes, status |-> "PENDING"] \in Request
      BY DEF Request, RequestStatuses
    <2>2. requests' \in [Requests -> Request \cup {NoRequest}]
      BY <1>1, <2>1 DEF CreateRequest, TypeOK
    <2>3. QED
      BY <1>0, <1>1, <2>2, BusyCall DEF CreateRequest, TypeOK, Exists
  <1>2. ASSUME NEW r \in Requests, AnnounceRequest(r)
        PROVE  TypeOK'
    BY <1>2, RecordType DEF AnnounceRequest, TypeOK, AuditEvent
  <1>3. ASSUME NEW c \in Clients, NEW r \in Requests, NEW i \in Identities,
               NEW approved \in BOOLEAN, LoadRequest(c, r, i, approved)
        PROVE  TypeOK'
    <2>1. Begun(r, i, approved).request = r
      BY DEF Begun
    <2>2. \A d \in Clients : call'[d] # Idle => requests'[call'[d].request] # NoRequest
      BY <1>3, <2>1, LoadType DEF LoadRequest, Exists, TypeOK
    <2>3. QED
      BY <1>3, <2>2, LoadType DEF LoadRequest, TypeOK
  <1>4. ASSUME NEW c \in Clients, ReadClaims(c)
        PROVE  TypeOK'
    <2>1. \A d \in Clients : call'[d] # Idle => requests'[call'[d].request] # NoRequest
      <3>1. /\ call[c] # Idle /\ call'[c].request = call[c].request
            /\ requests' = requests
            /\ \A d \in Clients \ {c} : call'[d] = call[d]
        BY <1>4, ReadType DEF ReadClaims
      <3>2. QED
        BY <3>1 DEF TypeOK
    <2>2. QED
      BY <1>4, <2>1, ReadType DEF ReadClaims, TypeOK
  <1>5. ASSUME NEW c \in Clients, CreateResult(c)
        PROVE  TypeOK'
    <2>1. call[c] # Idle /\ call[c] \in Call
      BY <1>5, StepMeansBusy, BusyCall DEF CreateResult, Steps
    <2>2. results' \subseteq Result
      BY <1>5, <2>1 DEF CreateResult, Result, Call, TypeOK
    <2>3. /\ call' \in [Clients -> Call \cup {Idle}]
          /\ call'[c].request = call[c].request
          /\ \A d \in Clients \ {c} : call'[d] = call[d]
      BY <1>5, <2>1, GotoType DEF CreateResult, Steps
    <2>4. \A d \in Clients : call'[d] # Idle => requests'[call'[d].request] # NoRequest
      BY <1>5, <2>1, <2>3 DEF CreateResult, TypeOK
    <2>5. QED
      BY <1>5, <2>2, <2>3, <2>4 DEF CreateResult, TypeOK
  <1>6. ASSUME NEW c \in Clients, UpdateRequestStatus(c)
        PROVE  TypeOK'
    <2>1. call[c] # Idle /\ requests' \in [Requests -> Request \cup {NoRequest}]
      BY <1>6, SettleType
    <2>2. /\ call' \in [Clients -> Call \cup {Idle}]
          /\ call'[c].request = call[c].request
          /\ \A d \in Clients \ {c} : call'[d] = call[d]
      BY <1>6, <2>1, GotoType DEF UpdateRequestStatus, Steps
    <2>3. \A d \in Clients : call'[d] # Idle => requests'[call'[d].request] # NoRequest
      BY <1>0, <2>1, <2>2, BusyCall DEF TypeOK
    <2>4. QED
      BY <1>6, <2>1, <2>2, <2>3 DEF UpdateRequestStatus, TypeOK
  <1>7. ASSUME NEW c \in Clients, Finish(c)
        PROVE  TypeOK'
    <2>1. call[c] # Idle /\ call[c] \in Call
      BY <1>7, StepMeansBusy, BusyCall DEF Finish, Steps
    <2>2. responded' \subseteq Response
      BY <1>7, <2>1 DEF Finish, Response, Call, TypeOK
    <2>3. audit' \subseteq AuditEvent
      BY <1>7, <2>1, RecordType DEF Finish, DecisionAction, AuditEvent, Call, TypeOK
    <2>4. QED
      BY <1>7, <2>2, <2>3, ReturnType DEF Finish, TypeOK
  <1>8. ASSUME NEW c \in Clients, Fail(c)
        PROVE  TypeOK'
    BY <1>8, ReturnType DEF Fail, TypeOK
  <1>9. ASSUME NEW i \in Identities, NEW st \in IdentityStatuses, UpdateStatus(i, st)
        PROVE  TypeOK'
    <2>1. call' \in [Clients -> Call \cup {Idle}]
      BY <1>9, StatusType DEF UpdateStatus
    <2>2. \A d \in Clients : call'[d] # Idle => requests'[call'[d].request] # NoRequest
      BY <1>9, StatusType DEF UpdateStatus, TypeOK
    <2>3. audit' \subseteq AuditEvent
      BY <1>9, RecordType DEF UpdateStatus, TypeOK, AuditEvent
    <2>4. QED
      BY <1>9, <2>1, <2>2, <2>3 DEF UpdateStatus, TypeOK
  <1>10. CASE UNCHANGED vars
    BY <1>10 DEF vars, TypeOK
  <1>11. QED
    BY <1>1, <1>2, <1>3, <1>4, <1>5, <1>6, <1>7, <1>8, <1>9, <1>10
    DEF Next, RespondRequest

\* Every reachable state is well typed.
THEOREM TypeCorrect == Spec => []TypeOK
  <1>1. Init => TypeOK
    BY ConsentAssumption DEF Init, TypeOK
  <1>2. QED
    BY <1>1, TypeStep, PTL DEF Spec

-----------------------------------------------------------------------------
(* Decisions and results                                                   *)

\* A result is never deleted.
LEMMA ResultsKept == [Next]_vars => results \subseteq results'
  BY DEF Next, RespondRequest, vars, CreateRequest, AnnounceRequest, LoadRequest,
     ReadClaims, CreateResult, UpdateRequestStatus, Finish, Fail, UpdateStatus

ResultAfter(r) == \E res \in results' : res.request = r

\* A request that has a result goes on having one.
LEMMA HasResultKept ==
    ASSUME [Next]_vars, NEW r, HasResult(r)
    PROVE  ResultAfter(r)
  BY ResultsKept DEF HasResult, ResultAfter

\* A call that is under way after a step was under way, and has moved on.
CallMoves(c) ==
    /\ call[c] # Idle
    /\ call'[c].request = call[c].request
    /\ call'[c].identity = call[c].identity
    /\ call'[c].approved = call[c].approved
    /\ call[c].active => call'[c].active
    /\ status'[call[c].identity] = "ACTIVE" =>
         status[call[c].identity] = "ACTIVE" \/ call'[c].active
    /\ \/ /\ call'[c].pc = call[c].pc
          /\ call'[c].claims = call[c].claims
          /\ call'[c].valid = call[c].valid
       \/ /\ call[c].pc = "claims" /\ call'[c].pc = "result"
          /\ call'[c].claims \subseteq
               UNION {ClaimsOf(sc) : sc \in requests[call[c].request].scopes}
          /\ call'[c].valid => status[call[c].identity] = "ACTIVE"
       \/ /\ call[c].pc = "result" /\ call'[c].pc = "settle"
          /\ ResultAfter(call[c].request)
       \/ /\ call[c].pc = "settle" /\ call'[c].pc = "finish"
          /\ requests'[call[c].request].status = Decision(call[c].approved)

\* A call that a step leaves alone goes on unchanged.
LEMMA OthersMove ==
    ASSUME NEW c \in Clients, call[c] # Idle, call'[c] = call[c], UNCHANGED status
    PROVE  CallMoves(c)
  BY DEF CallMoves

\* An answer under way after a step was just begun, or has moved on.
LEMMA CallSteps ==
    ASSUME TypeOK, [Next]_vars, NEW c \in Clients, call'[c] # Idle
    PROVE  \/ \E r \in Requests, i \in Identities, approved \in BOOLEAN :
                LoadRequest(c, r, i, approved)
           \/ CallMoves(c)
  <1>1. ASSUME call'[c] = call[c], UNCHANGED status
        PROVE  CallMoves(c)
    BY <1>1, OthersMove
  <1>2. ASSUME NEW d \in Clients, NEW r \in Requests, NEW i \in Identities,
               NEW approved \in BOOLEAN, LoadRequest(d, r, i, approved)
        PROVE  LoadRequest(c, r, i, approved) \/ CallMoves(c)
    <2>1. CASE d = c
      BY <1>2, <2>1
    <2>2. CASE d # c
      BY <1>1, <1>2, <2>2, LoadType DEF LoadRequest
    <2>3. QED
      BY <2>1, <2>2
  <1>3. ASSUME NEW d \in Clients, ReadClaims(d)
        PROVE  CallMoves(c)
    <2>1. CASE d = c
      BY <1>3, <2>1, ReadType DEF CallMoves, ReadClaims
    <2>2. CASE d # c
      BY <1>1, <1>3, <2>2, ReadType DEF ReadClaims
    <2>3. QED
      BY <2>1, <2>2
  <1>4. ASSUME NEW d \in Clients, CreateResult(d)
        PROVE  CallMoves(c)
    <2>1. call[d] # Idle /\ call[d].pc = "result" /\ UNCHANGED status
      BY <1>4, StepMeansBusy DEF CreateResult, Steps
    <2>2. /\ call'[d].pc = "settle"
          /\ call'[d].request = call[d].request
          /\ call'[d].identity = call[d].identity
          /\ call'[d].approved = call[d].approved
          /\ call'[d].active = call[d].active
          /\ \A e \in Clients \ {d} : call'[e] = call[e]
      BY <1>4, <2>1, GotoType DEF CreateResult, Steps
    <2>3. ResultAfter(call[d].request)
      <3> DEFINE res == [request |-> call[d].request, identity |-> call[d].identity,
                         approved |-> call[d].approved, claims |-> call[d].claims,
                         valid |-> call[d].valid, active |-> call[d].active]
      <3>1. res \in results' /\ res.request = call[d].request
        BY <1>4 DEF CreateResult
      <3>2. QED
        BY <3>1 DEF ResultAfter
    <2>4. CASE d = c
      BY <2>1, <2>2, <2>3, <2>4 DEF CallMoves
    <2>5. CASE d # c
      BY <1>1, <2>1, <2>2, <2>5
    <2>6. QED
      BY <2>4, <2>5
  <1>5. ASSUME NEW d \in Clients, UpdateRequestStatus(d)
        PROVE  CallMoves(c)
    <2>1. /\ call[d] # Idle /\ call[d].pc = "settle" /\ UNCHANGED status
          /\ requests'[call[d].request].status = Decision(call[d].approved)
      BY <1>5, SettleType DEF UpdateRequestStatus
    <2>2. /\ call'[d].pc = "finish"
          /\ call'[d].request = call[d].request
          /\ call'[d].identity = call[d].identity
          /\ call'[d].approved = call[d].approved
          /\ call'[d].active = call[d].active
          /\ \A e \in Clients \ {d} : call'[e] = call[e]
      BY <1>5, <2>1, GotoType DEF UpdateRequestStatus, Steps
    <2>3. CASE d = c
      BY <2>1, <2>2, <2>3 DEF CallMoves
    <2>4. CASE d # c
      BY <1>1, <2>1, <2>2, <2>4
    <2>5. QED
      BY <2>3, <2>4
  <1>6. ASSUME NEW d \in Clients, Finish(d) \/ Fail(d)
        PROVE  CallMoves(c)
    BY <1>1, <1>6, ReturnType DEF Finish, Fail
  <1>7. ASSUME NEW i \in Identities, NEW st \in IdentityStatuses, UpdateStatus(i, st)
        PROVE  CallMoves(c)
    BY <1>7, StatusType DEF CallMoves
  <1>8. ASSUME NEW r \in Requests,
               \/ AnnounceRequest(r)
               \/ \E i \in Identities, scopes \in ScopeChoices : CreateRequest(r, i, scopes)
        PROVE  CallMoves(c)
    BY <1>1, <1>8 DEF AnnounceRequest, CreateRequest
  <1>9. CASE UNCHANGED vars
    BY <1>1, <1>9 DEF vars
  <1>10. QED
    BY <1>2, <1>3, <1>4, <1>5, <1>6, <1>7, <1>8, <1>9 DEF Next, RespondRequest

\* Every step keeps what the answers under way know.
LEMMA CallInvStep == TypeOK /\ CallInv /\ [Next]_vars => CallInv'
  <1> SUFFICES ASSUME TypeOK, CallInv, [Next]_vars, NEW c \in Clients, call'[c] # Idle
               PROVE
        /\ requests'[call'[c].request].identity = call'[c].identity
        /\ status'[call'[c].identity] = "ACTIVE" => call'[c].active
        /\ call'[c].pc \in {"claims", "result"} => call'[c].approved
        /\ call'[c].pc = "result" =>
              /\ call'[c].claims \subseteq
                   UNION {ClaimsOf(sc) : sc \in requests'[call'[c].request].scopes}
              /\ call'[c].valid => call'[c].active
        /\ call'[c].pc \in {"settle", "finish"} /\ call'[c].approved =>
              ResultAfter(call'[c].request)
        /\ call'[c].pc = "finish" => requests'[call'[c].request].status # "PENDING"
    BY DEF CallInv, HasResult, ResultAfter
  <1>1. ASSUME NEW r \in Requests, NEW i \in Identities, NEW approved \in BOOLEAN,
               LoadRequest(c, r, i, approved)
        PROVE  /\ requests'[call'[c].request].identity = call'[c].identity
               /\ status'[call'[c].identity] = "ACTIVE" => call'[c].active
               /\ call'[c].pc = IF call'[c].approved THEN "claims" ELSE "settle"
               /\ call'[c].valid = FALSE /\ call'[c].claims = {}
    <2>1. call'[c] = Begun(r, i, approved)
      BY <1>1, LoadType
    <2>2. UNCHANGED <<requests, status>> /\ requests[r].identity = i
      BY <1>1 DEF LoadRequest
    <2>3. QED
      <3>1. /\ call'[c].request = r /\ call'[c].identity = i
            /\ call'[c].approved = approved
            /\ call'[c].active = (status[i] = "ACTIVE")
            /\ call'[c].pc = IF approved THEN "claims" ELSE "settle"
            /\ call'[c].valid = FALSE /\ call'[c].claims = {}
        BY <2>1 DEF Begun
      <3>2. QED
        BY <2>2, <3>1
  <1>2. CASE CallMoves(c)
    <2> DEFINE q == call[c].request
    <2>1. /\ call[c] # Idle /\ call'[c].request = q
          /\ call'[c].identity = call[c].identity /\ call'[c].approved = call[c].approved
      BY <1>2 DEF CallMoves
    <2>2. q \in Requests /\ Exists(q)
      BY <2>1, BusyCall
    <2>3. /\ requests'[q].identity = requests[q].identity
          /\ requests'[q].scopes = requests[q].scopes
          /\ requests[q].status # "PENDING" => requests'[q].status # "PENDING"
          /\ HasResult(q) => ResultAfter(q)
      BY <2>2, RequestsStable, HasResultKept
    <2>4. /\ requests[q].identity = call[c].identity
          /\ status[call[c].identity] = "ACTIVE" => call[c].active
          /\ call[c].pc \in {"claims", "result"} => call[c].approved
          /\ call[c].pc = "result" =>
                /\ call[c].claims \subseteq
                     UNION {ClaimsOf(sc) : sc \in requests[q].scopes}
                /\ call[c].valid => call[c].active
          /\ call[c].pc \in {"settle", "finish"} /\ call[c].approved => HasResult(q)
          /\ call[c].pc = "finish" => requests[q].status # "PENDING"
      BY <2>1 DEF CallInv
    <2>5. status'[call'[c].identity] = "ACTIVE" => call'[c].active
      BY <1>2, <2>1, <2>4 DEF CallMoves
    <2>6. call'[c].pc \in {"claims", "result"} => call'[c].approved
      BY <1>2, <2>1, <2>4 DEF CallMoves
    <2>7. call'[c].pc = "result" =>
            /\ call'[c].claims \subseteq
                 UNION {ClaimsOf(sc) : sc \in requests'[q].scopes}
            /\ call'[c].valid => call'[c].active
      BY <1>2, <2>3, <2>4 DEF CallMoves
    <2>8. call'[c].pc \in {"settle", "finish"} /\ call'[c].approved => ResultAfter(q)
      BY <1>2, <2>1, <2>3, <2>4 DEF CallMoves
    <2>9. call'[c].pc = "finish" => requests'[q].status # "PENDING"
      BY <1>2, <2>3, <2>4 DEF CallMoves, Decision
    <2>10. QED
      BY <2>1, <2>3, <2>4, <2>5, <2>6, <2>7, <2>8, <2>9
  <1>3. QED
    BY <1>1, <1>2, CallSteps

\* Only CreateResult adds a result, from a call at that step.
LEMMA ResultSteps ==
    ASSUME TypeOK, [Next]_vars, NEW res \in results', res \notin results
    PROVE  \E c \in Clients :
             /\ call[c] # Idle /\ call[c].pc = "result"
             /\ res.request = call[c].request /\ res.identity = call[c].identity
             /\ res.approved = call[c].approved /\ res.claims = call[c].claims
             /\ res.valid = call[c].valid /\ res.active = call[c].active
  <1>1. PICK c \in Clients : CreateResult(c)
    BY DEF Next, RespondRequest, vars, CreateRequest, AnnounceRequest, LoadRequest,
       ReadClaims, UpdateRequestStatus, Finish, Fail, UpdateStatus
  <1>2. call[c] # Idle /\ call[c].pc = "result"
    BY <1>1, StepMeansBusy DEF CreateResult, Steps
  <1>3. QED
    BY <1>1, <1>2 DEF CreateResult

\* Only Finish publishes an answer, from a call at that step.
LEMMA ResponseSteps ==
    ASSUME TypeOK, [Next]_vars, NEW e \in responded', e \notin responded
    PROVE  \E c \in Clients :
             /\ call[c] # Idle /\ call[c].pc = "finish"
             /\ e.request = call[c].request /\ e.approved = call[c].approved
  <1>1. PICK c \in Clients : Finish(c)
    BY DEF Next, RespondRequest, vars, CreateRequest, AnnounceRequest, LoadRequest,
       ReadClaims, CreateResult, UpdateRequestStatus, Fail, UpdateStatus
  <1>2. call[c] # Idle /\ call[c].pc = "finish"
    BY <1>1, StepMeansBusy DEF Finish, Steps
  <1>3. QED
    BY <1>1, <1>2 DEF Finish

\* A request becomes APPROVED only when an approving call settles it.
LEMMA ApprovalSteps ==
    ASSUME TypeOK, [Next]_vars, NEW r \in Requests, Exists(r)',
           requests'[r].status = "APPROVED"
    PROVE  \/ Exists(r) /\ requests[r].status = "APPROVED"
           \/ \E c \in Clients :
                /\ call[c] # Idle /\ call[c].pc = "settle"
                /\ call[c].request = r /\ call[c].approved
  <1>1. CASE requests' = requests
    BY <1>1 DEF Exists
  <1>2. ASSUME NEW q \in Requests, NEW i \in Identities, NEW scopes \in ScopeChoices,
               CreateRequest(q, i, scopes)
        PROVE  Exists(r) /\ requests[r].status = "APPROVED"
    <2>1. requests' = [requests EXCEPT ![q] =
                         [identity |-> i, scopes |-> scopes, status |-> "PENDING"]]
      BY <1>2 DEF CreateRequest
    <2>2. r # q
      BY <2>1 DEF TypeOK
    <2>3. requests'[r] = requests[r]
      BY <2>1, <2>2 DEF TypeOK
    <2>4. QED
      BY <2>3 DEF Exists
  <1>3. ASSUME NEW c \in Clients, UpdateRequestStatus(c)
        PROVE  \/ Exists(r) /\ requests[r].status = "APPROVED"
               \/ /\ call[c] # Idle /\ call[c].pc = "settle"
                  /\ call[c].request = r /\ call[c].approved
    <2>1. CASE r = call[c].request
      <3>1. /\ call[c] # Idle /\ call[c].pc = "settle"
            /\ Decision(call[c].approved) = "APPROVED"
        BY <1>3, <2>1, SettleType
      <3>2. QED
        BY <2>1, <3>1 DEF Decision
    <2>2. CASE r # call[c].request
      BY <1>3, <2>2, SettleType DEF Exists
    <2>3. QED
      BY <2>1, <2>2
  <1>4. CASE requests' # requests
    <2>1. \/ \E q \in Requests, i \in Identities, scopes \in ScopeChoices :
               CreateRequest(q, i, scopes)
          \/ \E c \in Clients : UpdateRequestStatus(c)
      BY <1>4 DEF Next, RespondRequest, vars, AnnounceRequest, LoadRequest, ReadClaims,
         CreateResult, Finish, Fail, UpdateStatus
    <2>2. QED
      BY <1>2, <1>3, <2>1
  <1>5. QED
    BY <1>1, <1>4

\* Every step keeps the properties of the requests, the results and the events.
LEMMA ConsentStep == TypeOK /\ ConsentInv /\ [Next]_vars => ConsentInv'
  <1> SUFFICES ASSUME TypeOK, ConsentInv, [Next]_vars
               PROVE  ConsentInv'
    OBVIOUS
  <1>1. CallInv'
    BY CallInvStep DEF ConsentInv
  <1>2. ASSUME NEW r \in Requests, Exists(r)', requests'[r].status = "APPROVED"
        PROVE  ResultAfter(r)
    <2>1. HasResult(r)
      BY <1>2, ApprovalSteps
      DEF ConsentInv, ApprovedHasResult, CallInv, HasResult
    <2>2. QED
      BY <2>1, HasResultKept
  <1>3. ASSUME NEW res \in results'
        PROVE  /\ Exists(res.request)'
               /\ requests'[res.request].identity = res.identity
               /\ res.approved
               /\ res.claims \subseteq
                    UNION {ClaimsOf(sc) : sc \in requests'[res.request].scopes}
               /\ res.valid => res.active
    <2>1. /\ res.request \in Requests
          /\ Exists(res.request)
          /\ requests[res.request].identity = res.identity
          /\ res.approved
          /\ res.claims \subseteq
               UNION {ClaimsOf(sc) : sc \in requests[res.request].scopes}
          /\ res.valid => res.active
      <3>1. CASE res \in results
        BY <3>1 DEF ConsentInv, ResultsAuthorised, TypeOK, Result
      <3>2. CASE res \notin results
        <4>1. PICK c \in Clients :
                /\ call[c] # Idle /\ call[c].pc = "result"
                /\ res.request = call[c].request /\ res.identity = call[c].identity
                /\ res.approved = call[c].approved /\ res.claims = call[c].claims
                /\ res.valid = call[c].valid /\ res.active = call[c].active
          BY <3>2, ResultSteps
        <4>2. QED
          BY <4>1, BusyCall DEF ConsentInv, CallInv
      <3>3. QED
        BY <3>1, <3>2
    <2>2. QED
      BY <2>1, RequestsStable DEF Exists
  <1>4. ASSUME NEW e \in responded'
        PROVE  /\ Exists(e.request)'
               /\ requests'[e.request].status # "PENDING"
               /\ e.approved => ResultAfter(e.request)
    <2>1. /\ e.request \in Requests
          /\ Exists(e.request)
          /\ requests[e.request].status # "PENDING"
          /\ e.approved => HasResult(e.request)
      <3>1. CASE e \in responded
        BY <3>1 DEF ConsentInv, RespondedExist, EventsFollowDecision, HasResult,
           TypeOK, Response
      <3>2. CASE e \notin responded
        BY <3>2, ResponseSteps, BusyCall DEF ConsentInv, CallInv
      <3>3. QED
        BY <3>1, <3>2
    <2>2. QED
      BY <2>1, RequestsStable, HasResultKept DEF Exists
  <1>5. ApprovedHasResult'
    BY <1>2 DEF ApprovedHasResult, ResultAfter, Exists
  <1>6. ResultsAuthorised'
    BY <1>3 DEF ResultsAuthorised, Exists
  <1>7. RespondedExist' /\ EventsFollowDecision'
    BY <1>4 DEF RespondedExist, EventsFollowDecision, ResultAfter, Exists
  <1>8. QED
    BY <1>1, <1>5, <1>6, <1>7 DEF ConsentInv

\* ConsentInv holds in every reachable state.
LEMMA ConsentInvariant == Spec => []ConsentInv
  <1>1. Init => ConsentInv
    BY DEF Init, ConsentInv, CallInv, ApprovedHasResult, ResultsAuthorised,
       RespondedExist, EventsFollowDecision, Exists, Idle
  <1>2. QED
    BY <1>1, ConsentStep, TypeCorrect, PTL DEF Spec

(***************************************************************************)
(* Whatever fails and however answers overlap, an approved request has a   *)
(* result.                                                                 *)
(***************************************************************************)
THEOREM ApprovalsHaveResults == Spec => []ApprovedHasResult
  <1>1. ConsentInv => ApprovedHasResult
    BY DEF ConsentInv
  <1>2. QED
    BY <1>1, ConsentInvariant, PTL

(***************************************************************************)
(* Every result was approved by the owner of its request, holds only       *)
(* claims that were asked for, and vouches only for an identity that was   *)
(* ACTIVE during the answer.                                               *)
(***************************************************************************)
THEOREM ResultsAreAuthorised == Spec => []ResultsAuthorised
  <1>1. ConsentInv => ResultsAuthorised
    BY DEF ConsentInv
  <1>2. QED
    BY <1>1, ConsentInvariant, PTL

(***************************************************************************)
(* A published answer is about a settled request, and a published approval *)
(* about one that has a result.                                            *)
(***************************************************************************)
THEOREM EventsTellTheTruth == Spec => []EventsFollowDecision
  <1>1. ConsentInv => EventsFollowDecision
    BY DEF ConsentInv
  <1>2. QED
    BY <1>1, ConsentInvariant, PTL

-----------------------------------------------------------------------------
(* RespondRequest implements SingleUseCapability                           *)

Presentation(x) ==
    IF x = Idle THEN [busy |-> FALSE]
    ELSE [busy |-> TRUE, token |-> x.request, eligible |-> TRUE]

\* The presentations of the contract, client by client.
LEMMA PresentationsAre == Presentations = [c \in Clients |-> Presentation(call[c])]
  BY DEF Presentations, Presentation

\* An answer under way is a presentation of its request.
LEMMA BusyPresentation ==
    ASSUME NEW c \in Clients, call[c] # Idle
    PROVE  /\ Presentations[c].busy
           /\ Presentations[c].token = call[c].request
           /\ Presentations[c].eligible
  BY DEF Presentations

\* A step that keeps every call on its request keeps the presentations.
LEMMA SamePresentations ==
    ASSUME \A c \in Clients :
             /\ call[c] = Idle <=> call'[c] = Idle
             /\ call[c] # Idle => call'[c].request = call[c].request
    PROVE  Presentations' = Presentations
  <1>1. \A c \in Clients : Presentation(call'[c]) = Presentation(call[c])
    BY DEF Presentation
  <1>2. QED
    BY <1>1, PresentationsAre DEF Presentations, Presentation

\* A call that returns leaves its client idle.
LEMMA ReturnPresentation ==
    ASSUME TypeOK, NEW c \in Clients, call' = [call EXCEPT ![c] = Idle]
    PROVE  Presentations' = [Presentations EXCEPT ![c] = Contract!Idle]
  <1>1. Presentation(call'[c]) = Contract!Idle
    BY ReturnType DEF Presentation, Contract!Idle
  <1>2. \A d \in Clients \ {c} : Presentation(call'[d]) = Presentation(call[d])
    BY ReturnType
  <1>3. Presentations' = [d \in Clients |-> Presentation(call'[d])]
    BY DEF Presentations, Presentation
  <1>4. QED
    BY <1>1, <1>2, <1>3, PresentationsAre

\* Every step is one of the contract, or a stutter.
LEMMA ContractStep ==
    TypeOK /\ ConsentInv /\ [Next]_vars => [Contract!Next]_(Contract!svars)
  <1> SUFFICES ASSUME TypeOK, ConsentInv, [Next]_vars
               PROVE  Contract!Next \/ UNCHANGED Contract!svars
    OBVIOUS
  <1>1. ASSUME NEW r \in Requests, NEW i \in Identities, NEW scopes \in ScopeChoices,
               CreateRequest(r, i, scopes)
        PROVE  UNCHANGED Contract!svars
    <2>1. requests' = [requests EXCEPT ![r] =
                         [identity |-> i, scopes |-> scopes, status |-> "PENDING"]]
      BY <1>1 DEF CreateRequest
    <2>2. r \notin Settled /\ r \notin Settled'
      BY <1>1, <2>1 DEF CreateRequest, Settled, Exists, TypeOK
    <2>3. \A q \in Requests \ {r} : requests'[q] = requests[q]
      BY <2>1 DEF TypeOK
    <2>4. Settled' = Settled
      BY <2>2, <2>3 DEF Settled, Exists
    <2>5. QED
      BY <1>1, <2>4 DEF CreateRequest, Contract!svars, Presentations, Processed
  <1>2. ASSUME NEW r \in Requests, AnnounceRequest(r)
        PROVE  UNCHANGED Contract!svars
    BY <1>2 DEF AnnounceRequest, Contract!svars, Settled, Exists, Presentations, Processed
  <1>3. ASSUME NEW c \in Clients, NEW r \in Requests, NEW i \in Identities,
               NEW approved \in BOOLEAN, LoadRequest(c, r, i, approved)
        PROVE  Contract!Begin(c, r)
    <2>1. /\ call[c] = Idle /\ requests[r].status = "PENDING"
          /\ UNCHANGED <<requests, responded>>
      BY <1>3 DEF LoadRequest
    <2>2. r \notin Settled
      BY <2>1 DEF Settled
    <2>3. Presentation(call'[c]) = Contract!Pending(r, r \notin Settled)
      <3>1. call'[c] # Idle /\ call'[c].request = r
        <4>1. call'[c] = Begun(r, i, approved) /\ Begun(r, i, approved) # Idle
          BY <1>3, LoadType
        <4>2. Begun(r, i, approved).request = r
          BY DEF Begun
        <4>3. QED
          BY <4>1, <4>2
      <3>2. QED
        BY <2>2, <3>1 DEF Presentation, Contract!Pending
    <2>4. \A d \in Clients \ {c} : Presentation(call'[d]) = Presentation(call[d])
      BY <1>3, LoadType
    <2>5. Presentations' = [d \in Clients |-> Presentation(call'[d])]
      BY DEF Presentations, Presentation
    <2>6. Presentations' = [Presentations EXCEPT ![c] =
                              Contract!Pending(r, r \notin Settled)]
      BY <2>3, <2>4, <2>5, PresentationsAre
    <2>7. ~Presentations[c].busy
      BY <2>1 DEF Presentations
    <2>8. Settled' = Settled /\ Processed' = Processed
      BY <2>1 DEF Settled, Processed, Exists
    <2>9. QED
      BY <2>6, <2>7, <2>8 DEF Contract!Begin
  <1>4. ASSUME NEW c \in Clients, ReadClaims(c)
        PROVE  UNCHANGED Contract!svars
    <2>1. call'[c] # Idle
      <3>1. call'[c].pc = "result" /\ call'[c] \in Call
        BY <1>4, ReadType
      <3>2. QED
        BY <3>1 DEF Idle
    <2>2. Presentations' = Presentations
      <3>1. /\ call[c] # Idle /\ call'[c].request = call[c].request
            /\ \A d \in Clients \ {c} : call'[d] = call[d]
        BY <1>4, ReadType
      <3>2. QED
        BY <2>1, <3>1, SamePresentations
    <2>3. QED
      BY <1>4, <2>2 DEF ReadClaims, Contract!svars, Settled, Exists, Processed
  <1>5. ASSUME NEW c \in Clients, NEW step \in Steps, call[c] # Idle,
               call' = [call EXCEPT ![c].pc = step]
        PROVE  Presentations' = Presentations
    <2>1. /\ call'[c].pc = step /\ call'[c].request = call[c].request
          /\ \A d \in Clients \ {c} : call'[d] = call[d]
      BY <1>5, GotoType
    <2>2. call'[c] # Idle
      BY <2>1 DEF Idle, Steps
    <2>3. QED
      BY <1>5, <2>1, <2>2, SamePresentations
  <1>6. ASSUME NEW c \in Clients, CreateResult(c)
        PROVE  UNCHANGED Contract!svars
    <2>1. Presentations' = Presentations
      BY <1>5, <1>6, StepMeansBusy DEF CreateResult, Steps
    <2>2. QED
      BY <1>6, <2>1 DEF CreateResult, Contract!svars, Settled, Exists, Processed
  <1>7. ASSUME NEW c \in Clients, UpdateRequestStatus(c)
        PROVE  Contract!Burn(c)
    <2>1. call[c] # Idle
      BY <1>7, SettleType
    <2>q. PICK q \in Requests : q = call[c].request
      BY <2>1, BusyCall
    <2>2. Presentations' = Presentations
      BY <1>5, <1>7, <2>1 DEF UpdateRequestStatus, Steps
    <2>3. Exists(q)' /\ requests'[q].status # "PENDING"
      BY <1>7, <2>q, SettleType, NoRequestAssumption DEF Exists, Decision
    <2>4. \A r \in Requests \ {q} : requests'[r] = requests[r]
      BY <1>7, <2>q, SettleType
    <2>5. Settled' = Settled \cup {q}
      BY <2>3, <2>4 DEF Settled, Exists
    <2>6. Processed' = Processed
      BY <1>7 DEF UpdateRequestStatus, Processed
    <2>7. QED
      BY <2>1, <2>2, <2>q, <2>5, <2>6, BusyPresentation DEF Contract!Burn
  <1>8. ASSUME NEW c \in Clients, Finish(c)
        PROVE  Contract!Grant(c)
    <2>1. call[c] # Idle /\ call[c].pc = "finish"
      BY <1>8, StepMeansBusy DEF Finish, Steps
    <2>2. call[c].request \in Settled
      BY <2>1, BusyCall DEF Settled, ConsentInv, CallInv
    <2>3. Processed' = Processed \cup {<<c, call[c].request>>}
      <3> DEFINE e == [client |-> c, request |-> call[c].request,
                       approved |-> call[c].approved]
      <3>1. /\ responded' = responded \cup {e}
            /\ e.client = c /\ e.request = call[c].request
        BY <1>8 DEF Finish
      <3> HIDE DEF e
      <3>2. \A f : f \in responded' <=> f \in responded \/ f = e
        BY <3>1
      <3>3. \A g : g \in Processed' <=> g \in Processed \/ g = <<e.client, e.request>>
        BY <3>2 DEF Processed
      <3>4. QED
        BY <3>1, <3>3
    <2>4. Settled' = Settled
      BY <1>8 DEF Finish, Settled, Exists
    <2>5. Presentations' = [Presentations EXCEPT ![c] = Contract!Idle]
      BY <1>8, ReturnPresentation DEF Finish
    <2>6. QED
      BY <2>1, <2>2, <2>3, <2>4, <2>5, BusyPresentation DEF Contract!Grant
  <1>9. ASSUME NEW c \in Clients, Fail(c)
        PROVE  Contract!Refuse(c)
    <2>1. call[c] # Idle
      BY <1>9, StepMeansBusy DEF Fail, Steps
    <2>2. Settled' = Settled /\ Processed' = Processed
      BY <1>9 DEF Fail, Settled, Exists, Processed
    <2>3. Presentations' = [Presentations EXCEPT ![c] = Contract!Idle]
      BY <1>9, ReturnPresentation DEF Fail
    <2>4. QED
      BY <2>1, <2>2, <2>3, BusyPresentation DEF Contract!Refuse
  <1>10. ASSUME NEW i \in Identities, NEW st \in IdentityStatuses, UpdateStatus(i, st)
         PROVE  UNCHANGED Contract!svars
    <2>1. Presentations' = Presentations
      BY <1>10, StatusType, SamePresentations
    <2>2. QED
      BY <1>10, <2>1 DEF UpdateStatus, Contract!svars, Settled, Exists, Processed
  <1>11. CASE UNCHANGED vars
    BY <1>11 DEF vars, Contract!svars, Settled, Exists, Presentations, Processed
  <1>12. QED
    BY <1>1, <1>2, <1>3, <1>4, <1>6, <1>7, <1>8, <1>9, <1>10, <1>11
    DEF Next, RespondRequest, Contract!Next

(***************************************************************************)
(* A request is answered as a single-use capability, whether or not        *)
(* repository calls fail: unlike a QR token's, its update is checked.      *)
(***************************************************************************)
THEOREM RespondRequestImplementsContract == Spec => ImplementsContract
  <1>1. Init => Contract!Init
    BY DEF Init, Contract!Init, Settled, Exists, Presentations, Processed, Contract!Idle
  <1>2. TypeOK /\ ConsentInv /\ [Next]_vars => [Contract!Next]_(Contract!svars)
    BY ContractStep
  <1>3. QED
    BY <1>1, <1>2, TypeCorrect, ConsentInvariant, PTL
    DEF Spec, ImplementsContract, Contract!Spec

-----------------------------------------------------------------------------
(* Answers that do not overlap                                             *)

\* No two answers to one request are under way together.
OneAnswerPerRequest ==
    \A c, d \in Clients :
        call[c] # Idle /\ call[d] # Idle /\ call[c].request = call[d].request => c = d

\* A request that was settled keeps its decision.
AnswersFinal ==
    \A r \in Requests : Exists(r) /\ requests[r].status # "PENDING" =>
        requests'[r] = requests[r]

\* An answer that has not settled its request finds it as LoadRequest did.
PendingWhileAnswered ==
    \A c \in Clients : call[c] # Idle /\ call[c].pc # "finish" =>
        requests[call[c].request].status = "PENDING"

\* A result belongs to an approved request, or to the answer about to approve it.
ResultsAreOwed ==
    \A res \in results :
        \/ requests[res.request].status = "APPROVED"
        \/ \E c \in Clients :
             /\ call[c] # Idle /\ call[c].pc = "settle"
             /\ call[c].request = res.request /\ call[c].approved

\* Only the update at the end of an answer changes a request that exists.
LEMMA RequestChanges ==
    ASSUME TypeOK, [Next]_vars, NEW r \in Requests, Exists(r), requests'[r] # requests[r]
    PROVE  \E c \in Clients : UpdateRequestStatus(c) /\ call[c].request = r
  <1>1. ASSUME NEW q \in Requests, NEW i \in Identities, NEW scopes \in ScopeChoices,
               CreateRequest(q, i, scopes)
        PROVE  requests'[r] = requests[r]
    BY <1>1 DEF CreateRequest, TypeOK, Exists
  <1>2. PICK c \in Clients : UpdateRequestStatus(c)
    BY <1>1 DEF Next, RespondRequest, vars, AnnounceRequest, LoadRequest, ReadClaims,
       CreateResult, Finish, Fail, UpdateStatus
  <1>3. QED
    BY <1>2, SettleType

\* Without overlap, only the answer that settles a request leaves it settled.
LEMMA PendingStep ==
    TypeOK /\ OneAnswerPerRequest /\ PendingWhileAnswered /\ [Next]_vars
        => PendingWhileAnswered'
  <1> SUFFICES ASSUME TypeOK, OneAnswerPerRequest, PendingWhileAnswered, [Next]_vars,
                      NEW c \in Clients, call'[c] # Idle, call'[c].pc # "finish"
               PROVE  requests'[call'[c].request].status = "PENDING"
    BY DEF PendingWhileAnswered
  <1>1. ASSUME NEW r \in Requests, NEW i \in Identities, NEW approved \in BOOLEAN,
               LoadRequest(c, r, i, approved)
        PROVE  requests'[call'[c].request].status = "PENDING"
    <2>1. call'[c] = Begun(r, i, approved)
      BY <1>1, LoadType
    <2>2. call'[c].request = r
      BY <2>1 DEF Begun
    <2>3. QED
      BY <1>1, <2>2 DEF LoadRequest
  <1>2. CASE CallMoves(c)
    <2> DEFINE q == call[c].request
    <2>1. /\ call[c] # Idle /\ call[c].pc # "finish" /\ call'[c].request = q
          /\ q \in Requests /\ Exists(q)
      BY <1>2, BusyCall DEF CallMoves
    <2>2. requests[q].status = "PENDING"
      BY <2>1 DEF PendingWhileAnswered
    <2>3. requests'[q] = requests[q]
      <3>1. SUFFICES ASSUME NEW d \in Clients, UpdateRequestStatus(d),
                            call[d].request = q
                     PROVE  FALSE
        BY <2>1, RequestChanges
      <3>2. call[d] # Idle /\ call'[d].pc = "finish"
        BY <3>1, SettleType, GotoType DEF UpdateRequestStatus, Steps
      <3>3. d = c
        BY <2>1, <3>1, <3>2 DEF OneAnswerPerRequest
      <3>4. QED
        BY <3>2, <3>3
    <2>4. QED
      BY <2>1, <2>2, <2>3
  <1>3. QED
    BY <1>1, <1>2, CallSteps

\* Then an answer under way always finds its request pending.
LEMMA PendingInvariant ==
    Spec /\ []OneAnswerPerRequest => []PendingWhileAnswered
  <1>1. Init => PendingWhileAnswered
    BY DEF Init, PendingWhileAnswered
  <1>2. QED
    BY <1>1, PendingStep, TypeCorrect, PTL DEF Spec

(***************************************************************************)
(* A request answered by one call at a time is settled once: no later      *)
(* answer, failure or retry changes its decision.  UpdateRequestStatus     *)
(* tests nothing itself; it is the test of PENDING in RespondRequest that  *)
(* protects the decision, and only as long as answers do not overlap.      *)
(***************************************************************************)
THEOREM SerialAnswersAreFinal ==
    Spec /\ []OneAnswerPerRequest => [][AnswersFinal]_vars
  <1>1. TypeOK /\ PendingWhileAnswered /\ [Next]_vars => [AnswersFinal]_vars
    <2> SUFFICES ASSUME TypeOK, PendingWhileAnswered, [Next]_vars,
                        NEW r \in Requests, Exists(r), requests[r].status # "PENDING"
                 PROVE  requests'[r] = requests[r]
      BY DEF AnswersFinal
    <2>1. SUFFICES ASSUME NEW c \in Clients, UpdateRequestStatus(c), call[c].request = r
                   PROVE  FALSE
      BY RequestChanges
    <2>2. QED
      BY <2>1, SettleType DEF PendingWhileAnswered
  <1>2. QED
    BY <1>1, TypeCorrect, PendingInvariant, PTL DEF Spec

\* Without overlap or failure, a result stays with the approval it is owed to.
LEMMA OwedStep ==
    ASSUME ~StoreMayFail
    PROVE  /\ TypeOK /\ ConsentInv /\ OneAnswerPerRequest /\ PendingWhileAnswered
           /\ ResultsAreOwed /\ [Next]_vars
           => ResultsAreOwed'
  <1> SUFFICES ASSUME TypeOK, ConsentInv, OneAnswerPerRequest, PendingWhileAnswered,
                      ResultsAreOwed, [Next]_vars, NEW res \in results'
               PROVE  \/ requests'[res.request].status = "APPROVED"
                      \/ \E c \in Clients :
                           /\ call'[c] # Idle /\ call'[c].pc = "settle"
                           /\ call'[c].request = res.request /\ call'[c].approved
    BY DEF ResultsAreOwed
  <1>1. CASE res \notin results
    <2>1. PICK c \in Clients : CreateResult(c)
      BY <1>1 DEF Next, RespondRequest, vars, CreateRequest, AnnounceRequest, LoadRequest,
         ReadClaims, UpdateRequestStatus, Finish, Fail, UpdateStatus
    <2>2. call[c] # Idle /\ call[c].pc = "result"
      BY <2>1, StepMeansBusy DEF CreateResult, Steps
    <2>3. /\ call'[c].pc = "settle" /\ call'[c].request = call[c].request
          /\ call'[c].approved = call[c].approved
      BY <2>1, <2>2, GotoType DEF CreateResult, Steps
    <2>4. call'[c] # Idle
      BY <2>3 DEF Idle
    <2>5. res.request = call[c].request
      BY <1>1, <2>1 DEF CreateResult
    <2>6. call[c].approved
      BY <2>2 DEF ConsentInv, CallInv
    <2>7. QED
      BY <2>3, <2>4, <2>5, <2>6
  <1>2. CASE res \in results
    <2> DEFINE r == res.request
    <2>1. r \in Requests /\ Exists(r)
      BY <1>2 DEF TypeOK, Result, ConsentInv, ResultsAuthorised
    <2>2. CASE requests[r].status = "APPROVED"
      <3>1. requests'[r] = requests[r]
        <4>1. SUFFICES ASSUME NEW d \in Clients, UpdateRequestStatus(d),
                              call[d].request = r
                       PROVE  FALSE
          BY <2>1, RequestChanges
        <4>2. QED
          BY <2>2, <4>1, SettleType DEF PendingWhileAnswered
      <3>2. QED
        BY <2>2, <3>1
    <2>3. ASSUME NEW c \in Clients, call[c] # Idle, call[c].pc = "settle",
                 call[c].request = r, call[c].approved
          PROVE  \/ requests'[r].status = "APPROVED"
                 \/ /\ call'[c] # Idle /\ call'[c].pc = "settle"
                    /\ call'[c].request = r /\ call'[c].approved
      <3>1. CASE UpdateRequestStatus(c)
        BY <2>3, <3>1, SettleType DEF Decision
      <3>2. CASE call'[c] # Idle
        <4>1. CallMoves(c)
          BY <2>3, <3>2, CallSteps DEF LoadRequest
        <4>2. call'[c].pc = "settle" \/ requests'[r].status = Decision(call[c].approved)
          BY <2>3, <4>1 DEF CallMoves
        <4>3. QED
          BY <2>3, <3>2, <4>1, <4>2 DEF CallMoves, Decision
      <3>3. CASE call'[c] = Idle
        <4>1. ASSUME NEW d \in Clients, Finish(d)
              PROVE  FALSE
          BY <2>3, <3>3, <4>1, ReturnType DEF Finish
        <4>2. ASSUME NEW d \in Clients, ReadClaims(d)
              PROVE  FALSE
          BY <2>3, <3>3, <4>2, ReadType DEF ReadClaims
        <4>3. ASSUME NEW d \in Clients, CreateResult(d)
              PROVE  FALSE
          <5>1. call[d] # Idle /\ call[d].pc = "result"
            BY <4>3, StepMeansBusy DEF CreateResult, Steps
          <5>2. d # c
            BY <2>3, <5>1
          <5>3. call'[c] = call[c]
            BY <4>3, <5>1, <5>2, GotoType DEF CreateResult, Steps
          <5>4. QED
            BY <2>3, <3>3, <5>3
        <4>4. ASSUME NEW d \in Clients, UpdateRequestStatus(d), d # c
              PROVE  FALSE
          <5>1. call[d] # Idle
            BY <4>4, SettleType
          <5>2. call'[c] = call[c]
            BY <4>4, <5>1, GotoType DEF UpdateRequestStatus, Steps
          <5>3. QED
            BY <2>3, <3>3, <5>2
        <4>5. ASSUME NEW i \in Identities, NEW st \in IdentityStatuses, UpdateStatus(i, st)
              PROVE  FALSE
          BY <2>3, <3>3, <4>5, StatusType
        <4>6. ASSUME NEW d \in Clients, NEW q \in Requests, NEW i \in Identities,
                     NEW approved \in BOOLEAN, LoadRequest(d, q, i, approved)
              PROVE  FALSE
          BY <2>3, <3>3, <4>6, LoadType DEF LoadRequest
        <4>7. call' # call
          BY <2>3, <3>3
        <4>8. CASE UpdateRequestStatus(c)
          BY <3>1, <4>8
        <4>9. QED
          BY <4>1, <4>2, <4>3, <4>4, <4>5, <4>6, <4>7, <4>8
          DEF Next, RespondRequest, vars, CreateRequest, AnnounceRequest, Fail
      <3>4. QED
        BY <3>2, <3>3
    <2>4. QED
      BY <1>2, <2>2, <2>3 DEF ResultsAreOwed
  <1>3. QED
    BY <1>1, <1>2

(***************************************************************************)
(* Where no repository call fails and a request is answered by one call at *)
(* a time, a denied request has no result: what the run consent_race finds *)
(* needs two overlapping answers, or a failure between CreateResult and    *)
(* UpdateRequestStatus, and nothing else can cause it.                     *)
(***************************************************************************)
THEOREM SerialDenialsHaveNoResult ==
    ASSUME ~StoreMayFail
    PROVE  Spec /\ []OneAnswerPerRequest => []DeniedHasNoResult
  <1>1. Init => ResultsAreOwed
    BY DEF Init, ResultsAreOwed
  <1>2. /\ TypeOK /\ ConsentInv /\ OneAnswerPerRequest /\ PendingWhileAnswered
        /\ ResultsAreOwed /\ [Next]_vars
        => ResultsAreOwed'
    BY OwedStep
  <1>3. ResultsAreOwed => DeniedHasNoResult
    BY DEF ResultsAreOwed, DeniedHasNoResult
  <1>4. QED
    BY <1>1, <1>2, <1>3, TypeCorrect, ConsentInvariant, PendingInvariant, PTL DEF Spec

\* The decisions an organisation is told of: one for each request.
OneResponsePerRequest ==
    \A e, f \in responded : e.request = f.request => e = f

\* No answer under way is about a request whose decision has been announced.
UnannouncedWhileAnswered ==
    \A c \in Clients, e \in responded :
        call[c] # Idle => e.request # call[c].request

\* Without overlap, an announced decision leaves no answer under way.
LEMMA UnannouncedStep ==
    /\ TypeOK /\ ConsentInv /\ OneAnswerPerRequest /\ UnannouncedWhileAnswered
    /\ [Next]_vars
    => UnannouncedWhileAnswered'
  <1> SUFFICES ASSUME TypeOK, ConsentInv, OneAnswerPerRequest, UnannouncedWhileAnswered,
                      [Next]_vars, NEW c \in Clients, call'[c] # Idle,
                      NEW e \in responded'
               PROVE  e.request # call'[c].request
    BY DEF UnannouncedWhileAnswered
  <1>1. ASSUME NEW r \in Requests, NEW i \in Identities, NEW approved \in BOOLEAN,
               LoadRequest(c, r, i, approved)
        PROVE  e.request # call'[c].request
    <2>1. call'[c] = Begun(r, i, approved)
      BY <1>1, LoadType
    <2>2. call'[c].request = r
      BY <2>1 DEF Begun
    <2>3. requests[r].status = "PENDING" /\ responded' = responded
      BY <1>1 DEF LoadRequest
    <2>4. e.request = r => requests[r].status # "PENDING"
      BY <2>3 DEF ConsentInv, EventsFollowDecision
    <2>5. QED
      BY <2>2, <2>3, <2>4
  <1>2. CASE CallMoves(c)
    <2>1. call[c] # Idle /\ call'[c].request = call[c].request
      BY <1>2 DEF CallMoves
    <2>2. CASE e \in responded
      BY <2>1, <2>2 DEF UnannouncedWhileAnswered
    <2>3. CASE e \notin responded
      <3>1. PICK d \in Clients : Finish(d)
        BY <2>3 DEF Next, RespondRequest, vars, CreateRequest, AnnounceRequest,
           LoadRequest, ReadClaims, CreateResult, UpdateRequestStatus, Fail, UpdateStatus
      <3>2. call[d] # Idle /\ call'[d] = Idle
        BY <3>1, StepMeansBusy, ReturnType DEF Finish, Steps
      <3>3. d # c /\ e.request = call[d].request
        <4> DEFINE new == [client |-> d, request |-> call[d].request,
                           approved |-> call[d].approved]
        <4>1. responded' = responded \cup {new} /\ new.request = call[d].request
          BY <3>1 DEF Finish
        <4> HIDE DEF new
        <4>2. QED
          BY <2>3, <3>2, <4>1
      <3>4. QED
        BY <2>1, <3>2, <3>3 DEF OneAnswerPerRequest
    <2>4. QED
      BY <2>2, <2>3
  <1>3. QED
    BY <1>1, <1>2, CallSteps

(***************************************************************************)
(* A request answered by one call at a time is announced with one decision *)
(* to the organisation, whatever repository calls fail: a retry after an   *)
(* error either finds the request settled and is refused, or is the first  *)
(* to be announced.                                                        *)
(***************************************************************************)
THEOREM SerialAnswersAnnouncedOnce ==
    Spec /\ []OneAnswerPerRequest => []OneResponsePerRequest
  <1>1. Init => UnannouncedWhileAnswered /\ OneResponsePerRequest
    BY DEF Init, UnannouncedWhileAnswered, OneResponsePerRequest
  <1>2. /\ TypeOK /\ ConsentInv /\ OneAnswerPerRequest /\ UnannouncedWhileAnswered
        /\ [Next]_vars
        => UnannouncedWhileAnswered'
    BY UnannouncedStep
  <1>3. TypeOK /\ UnannouncedWhileAnswered /\ OneResponsePerRequest /\ [Next]_vars
          => OneResponsePerRequest'
    <2> SUFFICES ASSUME TypeOK, UnannouncedWhileAnswered, OneResponsePerRequest, [Next]_vars
                 PROVE  OneResponsePerRequest'
      OBVIOUS
    <2>1. CASE responded' \subseteq responded
      BY <2>1 DEF OneResponsePerRequest
    <2>2. CASE ~(responded' \subseteq responded)
      <3>1. PICK c \in Clients : Finish(c)
        BY <2>2 DEF Next, RespondRequest, vars, CreateRequest, AnnounceRequest,
           LoadRequest, ReadClaims, CreateResult, UpdateRequestStatus, Fail, UpdateStatus
      <3>2. call[c] # Idle
        BY <3>1, StepMeansBusy DEF Finish, Steps
      <3> DEFINE new == [client |-> c, request |-> call[c].request,
                         approved |-> call[c].approved]
      <3>3. responded' = responded \cup {new} /\ new.request = call[c].request
        BY <3>1 DEF Finish
      <3> HIDE DEF new
      <3>4. \A e \in responded : e.request # new.request
        BY <3>2, <3>3 DEF UnannouncedWhileAnswered
      <3>5. QED
        BY <3>3, <3>4 DEF OneResponsePerRequest
    <2>3. QED
      BY <2>1, <2>2
  <1>4. QED
    BY <1>1, <1>2, <1>3, TypeCorrect, ConsentInvariant, PTL DEF Spec
===============================================================================
