------------------------ MODULE QRVerificationProofs ------------------------
(***************************************************************************)
(* Theorems about QRVerification, for every set of scanners, tokens,       *)
(* identities, scopes and lifetimes and for both repositories.             *)
(***************************************************************************)
EXTENDS QRVerification, TLAPS

-----------------------------------------------------------------------------
(* Type correctness                                                        *)

\* What every scan carries out with Record leaves the audit log well typed.
LEMMA RecordType ==
    ASSUME NEW a, NEW x, Record(a, x), audit \subseteq AuditEvent,
           [action |-> a, target |-> x] \in AuditEvent
    PROVE  audit' \subseteq AuditEvent
  BY DEF Record

\* Updating the step of a call keeps it well typed, and keeps its other fields.
LEMMA GotoType ==
    ASSUME NEW s \in Scanners, NEW step \in Steps, TypeOK,
           scan[s] # Idle, Goto(s, step)
    PROVE  /\ scan' \in [Scanners -> Scan \cup {Idle}]
           /\ scan'[s] = [scan[s] EXCEPT !.pc = step]
           /\ scan'[s] # Idle
           /\ scan'[s].token = scan[s].token
           /\ \A r \in Scanners \ {s} : scan'[r] = scan[r]
  <1>1. scan[s] \in Scan
    BY DEF TypeOK
  <1>2. [scan[s] EXCEPT !.pc = step] \in Scan
    BY <1>1 DEF Scan
  <1>3. scan'[s] = [scan[s] EXCEPT !.pc = step]
    BY DEF Goto, TypeOK
  <1>4. scan'[s] # Idle
    <2>1. scan'[s].pc = step
      BY <1>1, <1>3 DEF Scan
    <2>2. QED
      BY <2>1 DEF Idle, Steps
  <1>5. QED
    BY <1>1, <1>2, <1>3, <1>4 DEF Goto, TypeOK, Scan

\* So does burning the token, or failing to.
LEMMA BurnedIsType ==
    ASSUME NEW s \in Scanners, NEW burned \in BOOLEAN, TypeOK,
           scan[s] # Idle, BurnedIs(s, burned)
    PROVE  /\ scan' \in [Scanners -> Scan \cup {Idle}]
           /\ scan'[s] = [scan[s] EXCEPT !.pc = "identity", !.burned = burned]
           /\ scan'[s] # Idle
           /\ scan'[s].pc = "identity"
           /\ scan'[s].burned = burned
           /\ scan'[s].token = scan[s].token
           /\ scan'[s].usedSeen = scan[s].usedSeen
           /\ scan'[s].began = scan[s].began
           /\ scan'[s].replay = scan[s].replay
           /\ scan'[s].active = scan[s].active
           /\ \A r \in Scanners \ {s} : scan'[r] = scan[r]
  <1>1. scan[s] \in Scan
    BY DEF TypeOK
  <1>2. [scan[s] EXCEPT !.pc = "identity", !.burned = burned] \in Scan
    BY <1>1 DEF Scan, Steps
  <1>3. scan'[s] = [scan[s] EXCEPT !.pc = "identity", !.burned = burned]
    BY DEF BurnedIs, TypeOK
  <1>4. scan'[s].pc = "identity"
    BY <1>1, <1>3 DEF Scan
  <1>5. scan'[s] # Idle
    BY <1>4 DEF Idle
  <1>6. scan' \in [Scanners -> Scan \cup {Idle}]
    BY <1>2 DEF BurnedIs, TypeOK
  <1> QED
    BY <1>1, <1>3, <1>4, <1>5, <1>6 DEF BurnedIs, TypeOK, Scan

\* The scopes granted by one of the choices are a member of the record type.
LEMMA DiscloseType ==
    ASSUME NEW scopes, NEW p \in BOOLEAN
    PROVE  /\ Disclose(scopes, p) \in SUBSET ClaimNames
           /\ Disclose(scopes, p) \subseteq UNION {ClaimsOf(sc) : sc \in scopes}
  <1>1. "identity_valid" \in ClaimNames
    <2>1. ClaimsOf("identity_valid") = {"identity_valid"}
      BY DEF ClaimsOf
    <2>2. QED
      BY <2>1 DEF ClaimNames
  <1>2. QED
    BY <1>1 DEF Disclose

\* A call that is under way is a Scan record on a token that exists.
LEMMA BusyScan ==
    ASSUME TypeOK, NEW s \in Scanners, scan[s] # Idle
    PROVE  /\ scan[s] \in Scan
           /\ scan[s].token \in Tokens
           /\ Presented(s) \in TokenRecord
           /\ Owner(s) \in Identities
  BY DEF TypeOK, Scan, Presented, Owner, TokenRecord

\* Only a call that is under way has a next step.
LEMMA StepMeansBusy ==
    ASSUME NEW s \in Scanners, NEW step \in Steps, scan[s].pc = step
    PROVE  scan[s] # Idle
  BY DEF Idle, Steps

\* MarkTokenUsed burns the token, or fails.
LEMMA MarkSteps ==
    ASSUME NEW s \in Scanners, MarkTokenUsed(s)
    PROVE  /\ scan[s] # Idle /\ scan[s].pc = "mark"
           /\ UNCHANGED <<status, now, audit, disclosures>>
           /\ \/ tokens' = [tokens EXCEPT ![scan[s].token].isUsed = TRUE] /\ BurnedIs(s, TRUE)
              \/ StoreMayFail /\ tokens' = tokens /\ BurnedIs(s, FALSE)
  <1>1. scan[s] # Idle
    BY StepMeansBusy DEF MarkTokenUsed, Steps
  <1> QED
    BY <1>1, ZenonT(30) DEF MarkTokenUsed

\* A call that returns.
LEMMA ReturnType ==
    ASSUME TypeOK, NEW s \in Scanners, Return(s)
    PROVE  /\ scan' \in [Scanners -> Scan \cup {Idle}]
           /\ scan'[s] = Idle
           /\ \A r \in Scanners \ {s} : scan'[r] = scan[r]
  BY DEF Return, TypeOK

(***************************************************************************)
(* The state stays well typed, and a call under way always works on a      *)
(* token that exists: nothing ever deletes one.                            *)
(***************************************************************************)
LEMMA TypeStep == TypeOK /\ [Next]_vars => TypeOK'
  <1> SUFFICES ASSUME TypeOK, [Next]_vars
               PROVE  TypeOK'
    OBVIOUS
  <1> USE QRAssumption
  <1>1. ASSUME NEW t \in Tokens, NEW i \in Identities, NEW asked \in ScopeChoices,
               NEW d \in Durations, GenerateToken(t, i, asked, d)
        PROVE  TypeOK'
    <2>0. now + d \in Nat
      BY DEF TypeOK
    <2>1. [identity |-> i, scopes |-> GrantedScopes(asked), isUsed |-> FALSE,
           expiresAt |-> now + d] \in TokenRecord
      BY <2>0 DEF TokenRecord
    <2>2. tokens' \in [Tokens -> TokenRecord \cup {NoToken}]
      BY <1>1, <2>1 DEF GenerateToken, TypeOK
    <2>3. \A u \in Tokens : tokens[u] # NoToken => tokens'[u] # NoToken
      BY <1>1, <2>1, NoTokenAssumption DEF GenerateToken, TypeOK
    <2>4. audit' \subseteq AuditEvent
      BY <1>1, RecordType DEF GenerateToken, TypeOK, AuditEvent
    <2>5. \A s \in Scanners : scan'[s] # Idle => tokens'[scan'[s].token] # NoToken
      BY <1>1, <2>3, BusyScan DEF GenerateToken, TypeOK
    <2>6. QED
      BY <1>1, <2>2, <2>4, <2>5 DEF GenerateToken, TypeOK
  <1>2. ASSUME NEW s \in Scanners, NEW t \in Tokens, GetToken(s, t)
        PROVE  TypeOK'
    <2> DEFINE call == [pc |-> "expiry", token |-> t, usedSeen |-> tokens[t].isUsed,
                        began |-> now, replay |-> \E d \in disclosures : d.token = t /\ d.burned,
                        active |-> status[tokens[t].identity] = "ACTIVE", burned |-> FALSE]
    <2>1. tokens[t] \in TokenRecord
      BY <1>2 DEF GetToken, TypeOK
    <2>2. call \in Scan
      BY <2>1 DEF Scan, Steps, TypeOK, TokenRecord
    <2>3. scan' = [scan EXCEPT ![s] = call]
      BY <1>2 DEF GetToken
    <2>4. scan' \in [Scanners -> Scan \cup {Idle}] /\ scan'[s].token = t
      BY <2>2, <2>3 DEF TypeOK
    <2>5. \A r \in Scanners : scan'[r] # Idle => tokens'[scan'[r].token] # NoToken
      BY <1>2, <2>3, <2>4 DEF GetToken, TypeOK, stores
    <2>6. QED
      BY <1>2, <2>4, <2>5 DEF GetToken, TypeOK, stores
  <1>3. ASSUME NEW s \in Scanners, NEW t \in Tokens, TokenNotFound(s, t)
        PROVE  TypeOK'
    BY <1>3, RecordType DEF TokenNotFound, TypeOK, stores, AuditEvent
  <1>4. ASSUME NEW s \in Scanners, CheckExpiry(s)
        PROVE  TypeOK'
    <2>1. scan[s] # Idle /\ scan[s].token \in Tokens
      BY <1>4, StepMeansBusy, BusyScan DEF CheckExpiry, Steps
    <2>2. CASE now > Presented(s).expiresAt
      BY <1>4, <2>1, <2>2, ReturnType, RecordType
      DEF CheckExpiry, TypeOK, stores, AuditEvent
    <2>3. CASE ~(now > Presented(s).expiresAt)
      <3>1. Goto(s, "used") /\ UNCHANGED <<stores, disclosures, audit>>
        BY <1>4, <2>3 DEF CheckExpiry
      <3>2. /\ scan' \in [Scanners -> Scan \cup {Idle}]
            /\ scan'[s].token = scan[s].token
            /\ \A r \in Scanners \ {s} : scan'[r] = scan[r]
        BY <2>1, <3>1, GotoType DEF Steps
      <3>3. QED
        BY <2>1, <3>1, <3>2 DEF TypeOK, stores
    <2>4. QED
      BY <2>2, <2>3
  <1>5. ASSUME NEW s \in Scanners, CheckUsed(s)
        PROVE  TypeOK'
    <2>1. scan[s] # Idle /\ scan[s].token \in Tokens
      BY <1>5, StepMeansBusy, BusyScan DEF CheckUsed, Steps
    <2>2. CASE SeesUsed(s)
      BY <1>5, <2>1, <2>2, ReturnType, RecordType
      DEF CheckUsed, TypeOK, stores, AuditEvent
    <2>3. CASE ~SeesUsed(s)
      <3>1. Goto(s, "mark") /\ UNCHANGED <<stores, disclosures, audit>>
        BY <1>5, <2>3 DEF CheckUsed
      <3>2. /\ scan' \in [Scanners -> Scan \cup {Idle}]
            /\ scan'[s].token = scan[s].token
            /\ \A r \in Scanners \ {s} : scan'[r] = scan[r]
        BY <2>1, <3>1, GotoType DEF Steps
      <3>3. QED
        BY <2>1, <3>1, <3>2 DEF TypeOK, stores
    <2>4. QED
      BY <2>2, <2>3
  <1>6. ASSUME NEW s \in Scanners, MarkTokenUsed(s)
        PROVE  TypeOK'
    <2>1. scan[s] # Idle /\ scan[s].token \in Tokens /\ Presented(s) \in TokenRecord
      BY <1>6, MarkSteps, BusyScan
    <2>2. /\ tokens' \in [Tokens -> TokenRecord \cup {NoToken}]
          /\ \A u \in Tokens : tokens[u] # NoToken => tokens'[u] # NoToken
      <3>1. CASE tokens' = tokens
        BY <3>1 DEF TypeOK
      <3>2. CASE tokens' = [tokens EXCEPT ![scan[s].token].isUsed = TRUE]
        <4>1. [Presented(s) EXCEPT !.isUsed = TRUE] \in TokenRecord
          BY <2>1 DEF TokenRecord
        <4>2. QED
          BY <2>1, <3>2, <4>1, NoTokenAssumption DEF Presented, TypeOK
      <3>3. QED
        BY <1>6, <3>1, <3>2, MarkSteps
    <2>3. /\ scan' \in [Scanners -> Scan \cup {Idle}]
          /\ scan'[s].token = scan[s].token
          /\ \A r \in Scanners \ {s} : scan'[r] = scan[r]
      BY <1>6, <2>1, MarkSteps, BurnedIsType
    <2>4. \A r \in Scanners : scan'[r] # Idle => tokens'[scan'[r].token] # NoToken
      <3>1. ASSUME NEW r \in Scanners, scan'[r] # Idle
            PROVE  tokens'[scan'[r].token] # NoToken
        <4>1. CASE r = s
          BY <2>1, <2>2, <2>3, <4>1 DEF TypeOK
        <4>2. CASE r # s
          BY <2>2, <2>3, <3>1, <4>2, BusyScan DEF TypeOK
        <4>3. QED
          BY <4>1, <4>2
      <3>2. QED
        BY <3>1
    <2>5. QED
      BY <1>6, <2>2, <2>3, <2>4 DEF MarkTokenUsed, TypeOK
  <1>7. ASSUME NEW s \in Scanners, CheckIdentity(s)
        PROVE  TypeOK'
    <2>1. scan[s] # Idle /\ Owner(s) \in Identities
      BY <1>7, StepMeansBusy, BusyScan DEF CheckIdentity, Steps
    <2>2. CASE Return(s) /\ UNCHANGED audit
      BY <1>7, <2>1, <2>2, ReturnType DEF CheckIdentity, TypeOK, stores
    <2>3. CASE Return(s) /\ Record("QR_VERIFICATION_FAILED", Owner(s))
      BY <1>7, <2>1, <2>3, ReturnType, RecordType
      DEF CheckIdentity, TypeOK, stores, AuditEvent
    <2>4. CASE Goto(s, "disclose") /\ UNCHANGED audit
      BY <1>7, <2>1, <2>4, GotoType, ZenonT(30) DEF CheckIdentity, TypeOK, stores, Steps
    <2>5. QED
      BY <1>7, <2>2, <2>3, <2>4 DEF CheckIdentity
  <1>8. ASSUME NEW s \in Scanners, Answer(s)
        PROVE  TypeOK'
    <2>1. /\ scan[s] # Idle /\ scan[s] \in Scan
          /\ Owner(s) \in Identities /\ Presented(s) \in TokenRecord
      BY <1>8, StepMeansBusy, BusyScan DEF Answer, Steps
    <2>2. disclosures' \subseteq Disclosure
      BY <1>8, <2>1, DiscloseType DEF Answer, Disclosure, Scan, TypeOK
    <2>3. audit' \subseteq AuditEvent
      BY <1>8, <2>1, RecordType DEF Answer, TypeOK, AuditEvent
    <2>4. QED
      BY <1>8, <2>2, <2>3, ReturnType DEF Answer, TypeOK, stores
  <1>9. ASSUME NEW i \in Identities, NEW st \in Statuses, UpdateStatus(i, st)
        PROVE  TypeOK'
    <2>1. ASSUME NEW s \in Scanners
          PROVE  /\ scan'[s] \in Scan \cup {Idle}
                 /\ scan'[s] # Idle => scan[s] # Idle /\ scan'[s].token = scan[s].token
      <3>1. CASE scan[s] # Idle /\ Owner(s) = i
        BY <1>9, <3>1, BusyScan DEF UpdateStatus, Scan
      <3>2. CASE ~(scan[s] # Idle /\ Owner(s) = i)
        BY <1>9, <3>2 DEF UpdateStatus, TypeOK
      <3>3. QED
        BY <3>1, <3>2
    <2>2. scan' \in [Scanners -> Scan \cup {Idle}]
      BY <1>9, <2>1 DEF UpdateStatus
    <2>3. audit' \subseteq AuditEvent
      BY <1>9, RecordType DEF UpdateStatus, TypeOK, AuditEvent
    <2>4. QED
      BY <1>9, <2>1, <2>2, <2>3 DEF UpdateStatus, TypeOK
  <1>10. CASE Tick
    BY <1>10 DEF Tick, TypeOK
  <1>11. CASE UNCHANGED vars
    BY <1>11 DEF vars, TypeOK
  <1>12. QED
    BY <1>1, <1>2, <1>3, <1>4, <1>5, <1>6, <1>7, <1>8, <1>9, <1>10, <1>11
    DEF Next, VerifyToken

\* Every reachable state is well typed.
THEOREM TypeCorrect == Spec => []TypeOK
  <1>1. Init => TypeOK
    BY DEF Init, TypeOK, Statuses
  <1>2. QED
    BY <1>1, TypeStep, PTL DEF Spec

-----------------------------------------------------------------------------
(* What a step does to the tokens, to a call and to the answers            *)

\* A token keeps its owner, scopes and expiry, and once used stays used.
LEMMA TokensStable ==
    ASSUME TypeOK, [Next]_vars, NEW t \in Tokens, tokens[t] # NoToken
    PROVE  /\ tokens'[t] # NoToken
           /\ tokens'[t].identity = tokens[t].identity
           /\ tokens'[t].scopes = tokens[t].scopes
           /\ tokens'[t].expiresAt = tokens[t].expiresAt
           /\ tokens[t].isUsed => tokens'[t].isUsed
  <1>1. TypeOK'
    BY TypeStep
  <1>2. tokens[t] \in TokenRecord
    BY DEF TypeOK
  <1>3. ASSUME NEW s \in Scanners, MarkTokenUsed(s)
        PROVE  tokens'[t] = tokens[t] \/ tokens'[t] = [tokens[t] EXCEPT !.isUsed = TRUE]
    BY <1>3 DEF MarkTokenUsed, TypeOK
  <1>4. ASSUME NEW i \in Identities, NEW u \in Tokens, NEW asked \in ScopeChoices,
               NEW d \in Durations, GenerateToken(u, i, asked, d)
        PROVE  tokens'[t] = tokens[t]
    BY <1>4 DEF GenerateToken, TypeOK
  <1>5. tokens'[t] = tokens[t] \/ tokens'[t] = [tokens[t] EXCEPT !.isUsed = TRUE]
    BY <1>3, <1>4 DEF Next, VerifyToken, vars, stores, GetToken, TokenNotFound,
       CheckExpiry, CheckUsed, CheckIdentity, Answer, UpdateStatus, Tick
  <1>6. [tokens[t] EXCEPT !.isUsed = TRUE] \in TokenRecord
    BY <1>2 DEF TokenRecord
  <1>7. QED
    BY <1>2, <1>5, <1>6, NoTokenAssumption DEF TokenRecord

\* A call that is under way after a step has just begun, or has moved on.
CallMoves(s) ==
    /\ scan[s] # Idle
    /\ scan'[s].token = scan[s].token
    /\ scan'[s].usedSeen = scan[s].usedSeen
    /\ scan'[s].began = scan[s].began
    /\ scan'[s].replay = scan[s].replay
    /\ scan[s].active => scan'[s].active
    /\ status'[Owner(s)] = "ACTIVE" => status[Owner(s)] = "ACTIVE" \/ scan'[s].active
    /\ scan[s].pc # "mark" \/ scan'[s].pc = "mark" => scan'[s].burned = scan[s].burned
    /\ \/ scan'[s].pc = scan[s].pc
       \/ /\ scan[s].pc = "expiry" /\ scan'[s].pc = "used"
          /\ now <= Presented(s).expiresAt
       \/ /\ scan[s].pc = "used" /\ scan'[s].pc = "mark"
          /\ ~SeesUsed(s)
       \/ /\ scan[s].pc = "mark" /\ scan'[s].pc = "identity"
          /\ StoreMayFail \/ scan'[s].burned
          /\ scan'[s].burned => tokens'[scan[s].token].isUsed
       \/ /\ scan[s].pc = "identity" /\ scan'[s].pc = "disclose"
          /\ status[Owner(s)] = "ACTIVE"

\* A call no step of this kind belongs to goes on unchanged.
LEMMA OthersMove ==
    ASSUME NEW s \in Scanners, scan[s] # Idle, scan'[s] = scan[s],
           UNCHANGED status
    PROVE  CallMoves(s)
  BY DEF CallMoves

\* The call that takes the step with the next value of pc moves on.
LEMMA StepMoves ==
    ASSUME TypeOK, NEW s \in Scanners, scan[s] # Idle, NEW step \in Steps,
           Goto(s, step), UNCHANGED status
    PROVE  /\ scan'[s].pc = step
           /\ scan'[s].token = scan[s].token
           /\ scan'[s].usedSeen = scan[s].usedSeen
           /\ scan'[s].began = scan[s].began
           /\ scan'[s].replay = scan[s].replay
           /\ scan'[s].active = scan[s].active
           /\ scan'[s].burned = scan[s].burned
           /\ \A r \in Scanners \ {s} : scan'[r] = scan[r]
  <1>1. scan[s] \in Scan
    BY DEF TypeOK
  <1>2. scan'[s] = [scan[s] EXCEPT !.pc = step] /\ \A r \in Scanners \ {s} : scan'[r] = scan[r]
    BY DEF Goto, TypeOK
  <1>3. QED
    BY <1>1, <1>2 DEF Scan

\* A call under way after a step has begun in it, or has moved on.
LEMMA CallSteps ==
    ASSUME TypeOK, [Next]_vars, NEW s \in Scanners, scan'[s] # Idle
    PROVE  (scan[s] = Idle /\ \E t \in Tokens : GetToken(s, t)) \/ CallMoves(s)
  <1> USE QRAssumption
  <1>1. ASSUME NEW t \in Tokens, NEW i \in Identities, NEW asked \in ScopeChoices,
               NEW d \in Durations, GenerateToken(t, i, asked, d)
        PROVE  CallMoves(s)
    BY <1>1, OthersMove DEF GenerateToken
  <1>2. ASSUME NEW r \in Scanners, NEW t \in Tokens, GetToken(r, t)
        PROVE  (scan[s] = Idle /\ GetToken(s, t)) \/ CallMoves(s)
    <2>1. CASE r = s
      BY <1>2, <2>1 DEF GetToken
    <2>2. CASE r # s
      <3>1. scan'[s] = scan[s] /\ UNCHANGED status
        BY <1>2, <2>2 DEF GetToken, TypeOK, stores
      <3>2. QED
        BY <3>1, OthersMove
    <2>3. QED
      BY <2>1, <2>2
  <1>3. ASSUME NEW r \in Scanners, NEW t \in Tokens, TokenNotFound(r, t)
        PROVE  CallMoves(s)
    BY <1>3, OthersMove DEF TokenNotFound, stores
  <1>4. ASSUME NEW r \in Scanners, Return(r), UNCHANGED status
        PROVE  CallMoves(s)
    BY <1>4, ReturnType, OthersMove
  <1>5. ASSUME NEW r \in Scanners, CheckExpiry(r)
        PROVE  CallMoves(s)
    <2>1. CASE Return(r)
      BY <1>4, <1>5, <2>1 DEF CheckExpiry, stores
    <2>2. CASE Goto(r, "used") /\ ~(now > Presented(r).expiresAt)
      <3>1. scan[r] # Idle /\ scan[r].pc = "expiry" /\ UNCHANGED status
        BY <1>5, StepMeansBusy DEF CheckExpiry, Steps, stores
      <3>2. CASE r = s
        <4>1. now <= Presented(s).expiresAt
          BY <2>2, <3>1, <3>2, BusyScan DEF TokenRecord, TypeOK
        <4>2. QED
          BY <2>2, <3>1, <3>2, <4>1, StepMoves DEF CallMoves, Steps
      <3>3. CASE r # s
        BY <2>2, <3>1, <3>3, StepMoves, OthersMove DEF Steps
      <3>4. QED
        BY <3>2, <3>3
    <2>3. QED
      BY <1>5, <2>1, <2>2 DEF CheckExpiry
  <1>6. ASSUME NEW r \in Scanners, CheckUsed(r)
        PROVE  CallMoves(s)
    <2>1. CASE Return(r)
      BY <1>4, <1>6, <2>1 DEF CheckUsed, stores
    <2>2. CASE Goto(r, "mark") /\ ~SeesUsed(r)
      <3>1. scan[r] # Idle /\ scan[r].pc = "used" /\ UNCHANGED status
        BY <1>6, StepMeansBusy DEF CheckUsed, Steps, stores
      <3>2. CASE r = s
        BY <2>2, <3>1, <3>2, StepMoves DEF CallMoves, Steps
      <3>3. CASE r # s
        BY <2>2, <3>1, <3>3, StepMoves, OthersMove DEF Steps
      <3>4. QED
        BY <3>2, <3>3
    <2>3. QED
      BY <1>6, <2>1, <2>2 DEF CheckUsed
  <1>7. ASSUME NEW r \in Scanners, MarkTokenUsed(r)
        PROVE  CallMoves(s)
    <2>1. scan[r] # Idle /\ scan[r].pc = "mark" /\ UNCHANGED status
      BY <1>7, MarkSteps
    <2>2. scan[r].token \in Tokens /\ tokens[scan[r].token] \in TokenRecord
      BY <2>1, BusyScan DEF Presented
    <2>3. PICK burned \in BOOLEAN :
            /\ BurnedIs(r, burned)
            /\ StoreMayFail \/ burned
            /\ burned => tokens'[scan[r].token].isUsed
      <3>1. CASE /\ tokens' = [tokens EXCEPT ![scan[r].token].isUsed = TRUE]
                 /\ BurnedIs(r, TRUE)
        <4>1. tokens'[scan[r].token] = [tokens[scan[r].token] EXCEPT !.isUsed = TRUE]
          BY <2>2, <3>1 DEF TypeOK
        <4>2. tokens'[scan[r].token].isUsed
          BY <2>2, <4>1 DEF TokenRecord
        <4> QED
          BY <3>1, <4>2
      <3>2. CASE StoreMayFail /\ BurnedIs(r, FALSE)
        BY <3>2
      <3> QED
        BY <1>7, <3>1, <3>2, MarkSteps
    <2>4. /\ scan'[r].pc = "identity" /\ scan'[r].burned = burned
           /\ scan'[r].token = scan[r].token /\ scan'[r].usedSeen = scan[r].usedSeen
           /\ scan'[r].began = scan[r].began /\ scan'[r].replay = scan[r].replay
           /\ scan'[r].active = scan[r].active
           /\ \A u \in Scanners \ {r} : scan'[u] = scan[u]
      BY <2>1, <2>3, BurnedIsType
    <2>5. CASE r = s
      BY <2>1, <2>3, <2>4, <2>5 DEF CallMoves
    <2>6. CASE r # s
      BY <2>1, <2>4, <2>6, OthersMove
    <2> QED
      BY <2>5, <2>6
  <1>8. ASSUME NEW r \in Scanners, CheckIdentity(r)
        PROVE  CallMoves(s)
    <2>1. CASE Return(r)
      BY <1>4, <1>8, <2>1 DEF CheckIdentity, stores
    <2>2. CASE Goto(r, "disclose") /\ status[Owner(r)] = "ACTIVE"
      <3>1. scan[r] # Idle /\ scan[r].pc = "identity" /\ UNCHANGED status
        BY <1>8, StepMeansBusy DEF CheckIdentity, Steps, stores
      <3>2. CASE r = s
        BY <2>2, <3>1, <3>2, StepMoves DEF CallMoves, Steps
      <3>3. CASE r # s
        BY <2>2, <3>1, <3>3, StepMoves, OthersMove DEF Steps
      <3>4. QED
        BY <3>2, <3>3
    <2>3. QED
      BY <1>8, <2>1, <2>2 DEF CheckIdentity
  <1>9. ASSUME NEW r \in Scanners, Answer(r)
        PROVE  CallMoves(s)
    BY <1>4, <1>9 DEF Answer, stores
  <1>10. ASSUME NEW i \in Identities, NEW st \in Statuses, UpdateStatus(i, st)
         PROVE  CallMoves(s)
    <2>1. scan'[s] = IF scan[s] # Idle /\ Owner(s) = i
                       THEN [scan[s] EXCEPT !.active = @ \/ st = "ACTIVE"]
                       ELSE scan[s]
      BY <1>10 DEF UpdateStatus
    <2>2. scan[s] # Idle
      BY <2>1
    <2>3. scan[s] \in Scan /\ Owner(s) \in Identities
      BY <2>2, BusyScan
    <2>4. CASE Owner(s) = i
      <3>1. status'[i] = st
        BY <1>10 DEF UpdateStatus, TypeOK
      <3>2. scan'[s] = [scan[s] EXCEPT !.active = (scan[s].active \/ st = "ACTIVE")]
        BY <2>1, <2>2, <2>4
      <3>3. QED
        BY <2>2, <2>3, <2>4, <3>1, <3>2 DEF CallMoves, Scan
    <2>5. CASE Owner(s) # i
      <3>1. status'[Owner(s)] = status[Owner(s)]
        BY <1>10, <2>3, <2>5 DEF UpdateStatus, TypeOK
      <3>2. scan'[s] = scan[s]
        BY <2>1, <2>5
      <3>3. QED
        BY <2>2, <3>1, <3>2 DEF CallMoves
    <2>6. QED
      BY <2>4, <2>5
  <1>11. CASE Tick
    BY <1>11, OthersMove DEF Tick
  <1>12. CASE UNCHANGED vars
    BY <1>12, OthersMove DEF vars
  <1>13. QED
    BY <1>1, <1>2, <1>3, <1>5, <1>6, <1>7, <1>8, <1>9, <1>10, <1>11, <1>12
    DEF Next, VerifyToken

\* Only Answer adds an answer, and only a call at its last step answers.
LEMMA AnswerSteps ==
    ASSUME TypeOK, [Next]_vars, NEW d \in disclosures', d \notin disclosures
    PROVE  \E s \in Scanners :
             /\ scan[s] # Idle /\ scan[s].pc = "disclose"
             /\ d.by = s /\ d.token = scan[s].token /\ d.began = scan[s].began
             /\ d.replay = scan[s].replay /\ d.active = scan[s].active
             /\ d.burned = scan[s].burned
             /\ d.claims \subseteq UNION {ClaimsOf(sc) : sc \in Presented(s).scopes}
  <1>1. PICK s \in Scanners : Answer(s)
    BY DEF Next, VerifyToken, vars, GenerateToken, GetToken, TokenNotFound,
       CheckExpiry, CheckUsed, MarkTokenUsed, CheckIdentity, UpdateStatus, Tick
  <1>2. scan[s] # Idle
    BY <1>1, StepMeansBusy DEF Answer, Steps
  <1>3. QED
    BY <1>1, <1>2, DiscloseType DEF Answer

\* The clock does not run backwards.
LEMMA TimeStep == TypeOK /\ [Next]_vars => now \in Nat /\ now' \in Nat /\ now <= now'
  <1>1. TypeOK /\ [Next]_vars => now' = now \/ now' = now + 1
    BY DEF Next, VerifyToken, vars, stores, GenerateToken, GetToken, TokenNotFound,
       CheckExpiry, CheckUsed, MarkTokenUsed, CheckIdentity, Answer, UpdateStatus, Tick
  <1>2. QED
    BY <1>1 DEF TypeOK

-----------------------------------------------------------------------------
(* Every answer is justified                                               *)

\* Every step keeps what a call knows of the owner and of the expiry.
LEMMA ScanInvStep == TypeOK /\ ScanInv /\ [Next]_vars => ScanInv'
  <1> SUFFICES ASSUME TypeOK, ScanInv, [Next]_vars, NEW s \in Scanners, scan'[s] # Idle
               PROVE  /\ scan'[s].began <= now'
                      /\ status'[Owner(s)'] = "ACTIVE" => scan'[s].active
                      /\ scan'[s].pc # "expiry" => scan'[s].began <= Presented(s)'.expiresAt
                      /\ scan'[s].pc = "disclose" => scan'[s].active
    BY DEF ScanInv
  <1>1. now \in Nat /\ now' \in Nat /\ now <= now'
    BY TimeStep
  <1>2. CASE \E t \in Tokens : GetToken(s, t)
    <2>1. PICK t \in Tokens : GetToken(s, t)
      BY <1>2
    <2>2. scan'[s] = [pc |-> "expiry", token |-> t, usedSeen |-> tokens[t].isUsed,
                      began |-> now, replay |-> \E d \in disclosures : d.token = t /\ d.burned,
                      active |-> status[tokens[t].identity] = "ACTIVE", burned |-> FALSE]
      BY <2>1 DEF GetToken, TypeOK
    <2>3. UNCHANGED <<tokens, status, now>>
      BY <2>1 DEF GetToken, stores
    <2>4. /\ scan'[s].token = t /\ scan'[s].began = now /\ scan'[s].pc = "expiry"
          /\ scan'[s].active = (status[tokens[t].identity] = "ACTIVE")
      BY <2>2
    <2>5. Owner(s)' = tokens[t].identity
      BY <2>3, <2>4 DEF Owner, Presented
    <2>6. QED
      BY <1>1, <2>3, <2>4, <2>5
  <1>3. CASE CallMoves(s)
    <2>1. scan[s] # Idle /\ scan'[s].token = scan[s].token /\ scan'[s].began = scan[s].began
      BY <1>3 DEF CallMoves
    <2>2. /\ scan[s] \in Scan /\ scan[s].token \in Tokens
          /\ tokens[scan[s].token] # NoToken /\ Presented(s) \in TokenRecord
      BY <2>1, BusyScan DEF TypeOK
    <2>3. Owner(s)' = Owner(s) /\ Presented(s)'.expiresAt = Presented(s).expiresAt
      BY <2>1, <2>2, TokensStable DEF Owner, Presented
    <2>4. /\ scan[s].began <= now
          /\ status[Owner(s)] = "ACTIVE" => scan[s].active
          /\ scan[s].pc # "expiry" => scan[s].began <= Presented(s).expiresAt
          /\ scan[s].pc = "disclose" => scan[s].active
      BY <2>1 DEF ScanInv
    <2>5. scan[s].began \in Nat /\ Presented(s).expiresAt \in Nat
      BY <2>2 DEF Scan, TokenRecord
    <2>6. scan'[s].began <= now'
      BY <1>1, <2>1, <2>4, <2>5
    <2>7. status'[Owner(s)'] = "ACTIVE" => scan'[s].active
      BY <1>3, <2>3, <2>4 DEF CallMoves
    <2>8. scan'[s].pc # "expiry" => scan'[s].began <= Presented(s)'.expiresAt
      BY <1>1, <1>3, <2>1, <2>3, <2>4, <2>5 DEF CallMoves
    <2>9. scan'[s].pc = "disclose" => scan'[s].active
      BY <1>3, <2>4 DEF CallMoves
    <2>10. QED
      BY <2>6, <2>7, <2>8, <2>9
  <1>4. QED
    BY <1>2, <1>3, CallSteps

\* Every step keeps the answers justified.
LEMMA JustifiedStep == TypeOK /\ JustifiedInv /\ [Next]_vars => JustifiedInv'
  <1> SUFFICES ASSUME TypeOK, JustifiedInv, [Next]_vars
               PROVE  JustifiedInv'
    OBVIOUS
  <1>1. ScanInv'
    BY ScanInvStep DEF JustifiedInv
  <1>2. ASSUME NEW d \in disclosures'
        PROVE  /\ tokens'[d.token] # NoToken
               /\ d.active
               /\ d.began <= tokens'[d.token].expiresAt
               /\ d.claims \subseteq UNION {ClaimsOf(sc) : sc \in tokens'[d.token].scopes}
    <2>1. CASE d \in disclosures
      <3>1. d.token \in Tokens /\ tokens[d.token] # NoToken
        BY <2>1 DEF JustifiedInv, DisclosedTokensExist, TypeOK, Disclosure
      <3>2. QED
        BY <2>1, <3>1, TokensStable DEF JustifiedInv, DisclosureJustified
    <2>2. CASE d \notin disclosures
      <3>1. PICK s \in Scanners :
              /\ scan[s] # Idle /\ scan[s].pc = "disclose"
              /\ d.by = s /\ d.token = scan[s].token /\ d.began = scan[s].began
              /\ d.replay = scan[s].replay /\ d.active = scan[s].active
              /\ d.claims \subseteq UNION {ClaimsOf(sc) : sc \in Presented(s).scopes}
        BY <2>2, AnswerSteps
      <3>2. d.token \in Tokens /\ tokens[d.token] # NoToken
        BY <3>1, BusyScan DEF TypeOK
      <3>3. d.active /\ d.began <= tokens[d.token].expiresAt
        BY <3>1 DEF JustifiedInv, ScanInv, Presented
      <3>4. QED
        BY <3>1, <3>2, <3>3, TokensStable DEF Presented
    <2>3. QED
      BY <2>1, <2>2
  <1>3. QED
    BY <1>1, <1>2 DEF JustifiedInv, DisclosedTokensExist, DisclosureJustified

(***************************************************************************)
(* Whatever fails and however scans, administrators and time interleave,   *)
(* claims leave only for an owner seen ACTIVE during the scan, on a token  *)
(* that had not expired when the scan began, and only claims granted.      *)
(***************************************************************************)
THEOREM DisclosuresAreJustified == Spec => []DisclosureJustified
  <1>1. Init => JustifiedInv
    BY DEF Init, JustifiedInv, ScanInv, DisclosedTokensExist, DisclosureJustified, Idle
  <1>2. JustifiedInv => DisclosureJustified
    BY DEF JustifiedInv
  <1>3. QED
    BY <1>1, <1>2, JustifiedStep, TypeCorrect, PTL DEF Spec

-----------------------------------------------------------------------------
(* A token that was honoured is not honoured again                         *)

\* Every step keeps what a call knows of is_used.
LEMMA UsedInvStep ==
    TypeOK /\ BurnInv /\ [Next]_vars => UsedInv'
  <1> SUFFICES ASSUME TypeOK, BurnInv, [Next]_vars, NEW s \in Scanners, scan'[s] # Idle
               PROVE  /\ scan'[s].replay => scan'[s].usedSeen
                      /\ scan'[s].usedSeen => Presented(s)'.isUsed
                      /\ scan'[s].pc \in {"mark", "identity", "disclose"} => ~scan'[s].usedSeen
                      /\ scan'[s].burned => Presented(s)'.isUsed
                      /\ scan'[s].pc \in {"identity", "disclose"} => scan'[s].burned \/ StoreMayFail
    BY DEF UsedInv
  <1>1. CASE \E t \in Tokens : GetToken(s, t)
    <2>1. PICK t \in Tokens : GetToken(s, t)
      BY <1>1
    <2>2. scan'[s] = [pc |-> "expiry", token |-> t, usedSeen |-> tokens[t].isUsed,
                      began |-> now, replay |-> \E d \in disclosures : d.token = t /\ d.burned,
                      active |-> status[tokens[t].identity] = "ACTIVE", burned |-> FALSE]
      BY <2>1 DEF GetToken, TypeOK
    <2>3. tokens' = tokens
      BY <2>1 DEF GetToken, stores
    <2>4. scan'[s].replay => tokens[t].isUsed
      BY <2>2 DEF BurnInv, DisclosedTokensBurned
    <2>5. QED
      BY <2>2, <2>3, <2>4 DEF Presented
  <1>2. CASE CallMoves(s)
    <2>1. scan[s] # Idle /\ scan'[s].token = scan[s].token
      BY <1>2 DEF CallMoves
    <2>2. /\ scan[s].token \in Tokens /\ tokens[scan[s].token] # NoToken
      BY <2>1, BusyScan DEF TypeOK
    <2>3. Presented(s).isUsed => Presented(s)'.isUsed
      BY <2>1, <2>2, TokensStable DEF Presented
    <2>4. /\ scan[s].replay => scan[s].usedSeen
          /\ scan[s].usedSeen => Presented(s).isUsed
          /\ scan[s].pc \in {"mark", "identity", "disclose"} => ~scan[s].usedSeen
          /\ scan[s].burned => Presented(s).isUsed
          /\ scan[s].pc \in {"identity", "disclose"} => scan[s].burned \/ StoreMayFail
      BY <2>1 DEF BurnInv, UsedInv
    <2>5. /\ scan'[s].replay => scan'[s].usedSeen
          /\ scan'[s].usedSeen => Presented(s)'.isUsed
      BY <1>2, <2>3, <2>4 DEF CallMoves
    <2>6. SeesUsed(s) \/ ~scan[s].usedSeen
      BY <2>4 DEF SeesUsed
    <2>7. scan'[s].pc \in {"mark", "identity", "disclose"} => ~scan'[s].usedSeen
      BY <1>2, <2>4, <2>6 DEF CallMoves
    <2>8. scan'[s].burned => Presented(s)'.isUsed
      BY <1>2, <2>1, <2>3, <2>4 DEF CallMoves, Presented
    <2>9. scan'[s].pc \in {"identity", "disclose"} => scan'[s].burned \/ StoreMayFail
      BY <1>2, <2>4 DEF CallMoves
    <2>10. QED
      BY <2>5, <2>7, <2>8, <2>9
  <1>3. QED
    BY <1>1, <1>2, CallSteps

\* Every step keeps the tokens that were honoured burned.
LEMMA BurnStep ==
    TypeOK /\ BurnInv /\ [Next]_vars => BurnInv'
  <1> SUFFICES ASSUME TypeOK, BurnInv, [Next]_vars
               PROVE  BurnInv'
    OBVIOUS
  <1>1. UsedInv'
    BY UsedInvStep
  <1>2. ASSUME NEW d \in disclosures'
        PROVE  /\ tokens'[d.token] # NoToken
               /\ d.burned => tokens'[d.token].isUsed
               /\ d.burned \/ StoreMayFail
               /\ ~d.replay
    <2>1. CASE d \in disclosures
      <3>1. d.token \in Tokens
        BY <2>1 DEF TypeOK, Disclosure
      <3>2. QED
        BY <2>1, <3>1, TokensStable DEF BurnInv, DisclosedTokensBurned, NoSequentialReplay
    <2>2. CASE d \notin disclosures
      <3>1. PICK s \in Scanners :
              /\ scan[s] # Idle /\ scan[s].pc = "disclose"
              /\ d.token = scan[s].token /\ d.replay = scan[s].replay
              /\ d.burned = scan[s].burned
        BY <2>2, AnswerSteps
      <3>2. d.token \in Tokens /\ tokens[d.token] # NoToken
        BY <3>1, BusyScan DEF TypeOK
      <3>3. /\ d.burned => tokens[d.token].isUsed
            /\ d.burned \/ StoreMayFail
            /\ ~d.replay
        BY <3>1 DEF BurnInv, UsedInv, Presented
      <3>4. QED
        BY <3>2, <3>3, TokensStable
    <2>3. QED
      BY <2>1, <2>2
  <1>3. QED
    BY <1>1, <1>2 DEF BurnInv, DisclosedTokensBurned, NoSequentialReplay

\* So they are in every reachable state.
LEMMA BurnInvariant == Spec => []BurnInv
  <1>1. Init => BurnInv
    BY DEF Init, BurnInv, UsedInv, DisclosedTokensBurned, NoSequentialReplay, Idle
  <1>2. TypeOK /\ BurnInv /\ [Next]_vars => BurnInv'
    BY BurnStep
  <1>3. QED
    BY <1>1, <1>2, TypeCorrect, PTL DEF Spec

(***************************************************************************)
(* A scan that begins after a scan that burned the same token was          *)
(* honoured is never honoured, in either repository, whatever fails.       *)
(***************************************************************************)
THEOREM HonouredTokensAreNotReplayed == Spec => []NoSequentialReplay
  <1>1. BurnInv => NoSequentialReplay
    BY DEF BurnInv
  <1>2. QED
    BY <1>1, BurnInvariant, PTL

-----------------------------------------------------------------------------
(* Scans that do not overlap                                               *)

\* No two scans of one token are under way together.
OneScanPerToken ==
    \A r, s \in Scanners :
        scan[r] # Idle /\ scan[s] # Idle /\ scan[r].token = scan[s].token => r = s

\* A scan of a token that was burned and honoured began after it was honoured.
FirstScans ==
    \A s \in Scanners, d \in disclosures :
        scan[s] # Idle /\ d.token = scan[s].token /\ d.burned => scan[s].replay

\* Without overlap, no answer is given while another scan of the token is under way.
LEMMA FirstScansStep ==
    TypeOK /\ OneScanPerToken /\ FirstScans /\ [Next]_vars => FirstScans'
  <1> SUFFICES ASSUME TypeOK, OneScanPerToken, FirstScans, [Next]_vars,
                      NEW s \in Scanners, scan'[s] # Idle,
                      NEW d \in disclosures', d.token = scan'[s].token, d.burned
               PROVE  scan'[s].replay
    BY DEF FirstScans
  <1>1. ASSUME NEW t \in Tokens, GetToken(s, t)
        PROVE  scan'[s].replay
    <2>1. scan'[s] = [pc |-> "expiry", token |-> t, usedSeen |-> tokens[t].isUsed,
                      began |-> now, replay |-> \E e \in disclosures : e.token = t /\ e.burned,
                      active |-> status[tokens[t].identity] = "ACTIVE", burned |-> FALSE]
      BY <1>1 DEF GetToken, TypeOK
    <2>2. scan'[s].token = t /\ scan'[s].replay = \E e \in disclosures : e.token = t /\ e.burned
      BY <2>1
    <2>3. disclosures' = disclosures
      BY <1>1 DEF GetToken
    <2>4. QED
      BY <2>2, <2>3
  <1>2. CASE CallMoves(s)
    <2>1. /\ scan[s] # Idle /\ scan'[s].token = scan[s].token
          /\ scan'[s].replay = scan[s].replay
      BY <1>2 DEF CallMoves
    <2>2. CASE d \in disclosures
      BY <2>1, <2>2 DEF FirstScans
    <2>3. CASE d \notin disclosures
      <3>1. PICK r \in Scanners : Answer(r)
        BY <2>3 DEF Next, VerifyToken, vars, GenerateToken, GetToken, TokenNotFound,
           CheckExpiry, CheckUsed, MarkTokenUsed, CheckIdentity, UpdateStatus, Tick
      <3>2. scan[r] # Idle /\ Return(r) /\ d.token = scan[r].token
        BY <2>3, <3>1, StepMeansBusy DEF Answer, Steps
      <3>3. r = s
        BY <2>1, <3>2 DEF OneScanPerToken
      <3>4. QED
        BY <3>2, <3>3, ReturnType
    <2>4. QED
      BY <2>2, <2>3
  <1>3. QED
    BY <1>1, <1>2, CallSteps

\* Every token has been honoured by at most one scanner.
LEMMA OneAnswerStep ==
    ASSUME ~StoreMayFail
    PROVE  TypeOK /\ BurnInv /\ FirstScans /\ AtMostOneDisclosure /\ [Next]_vars
               => AtMostOneDisclosure'
  <1> SUFFICES ASSUME TypeOK, BurnInv, FirstScans, AtMostOneDisclosure, [Next]_vars
               PROVE  AtMostOneDisclosure'
    OBVIOUS
  <1>1. CASE disclosures' \subseteq disclosures
    BY <1>1 DEF AtMostOneDisclosure
  <1>2. CASE ~(disclosures' \subseteq disclosures)
    <2>1. PICK s \in Scanners : Answer(s)
      BY <1>2 DEF Next, VerifyToken, vars, GenerateToken, GetToken, TokenNotFound,
         CheckExpiry, CheckUsed, MarkTokenUsed, CheckIdentity, UpdateStatus, Tick
    <2>2. scan[s] # Idle /\ scan[s].pc = "disclose"
      BY <2>1, StepMeansBusy DEF Answer, Steps
    <2>3. \A d \in disclosures : d.token # scan[s].token
      <3>1. scan[s].replay => FALSE
        BY <2>2 DEF BurnInv, UsedInv
      <3>2. \A d \in disclosures : d.burned
        BY DEF BurnInv, DisclosedTokensBurned
      <3>3. QED
        BY <2>2, <3>1, <3>2 DEF FirstScans
    <2>4. \A d \in disclosures' : d \in disclosures \/ (d.by = s /\ d.token = scan[s].token)
      BY <2>1 DEF Answer
    <2>5. QED
      BY <2>3, <2>4 DEF AtMostOneDisclosure
  <1>3. QED
    BY <1>1, <1>2

(***************************************************************************)
(* If no repository call fails and no two scans of a token overlap, the    *)
(* token is honoured once: a double disclosure (the run qr_double_scan)    *)
(* needs two scans that overlap, or a repository call that failed, and     *)
(* nothing else can cause it.                                              *)
(***************************************************************************)
THEOREM SerialScansDiscloseOnce ==
    ASSUME ~StoreMayFail
    PROVE  Spec /\ []OneScanPerToken => []AtMostOneDisclosure
  <1>1. Init => FirstScans /\ AtMostOneDisclosure
    BY DEF Init, FirstScans, AtMostOneDisclosure
  <1>2. QED
    BY <1>1, FirstScansStep, OneAnswerStep, TypeCorrect, BurnInvariant, PTL DEF Spec

-----------------------------------------------------------------------------
(* VerifyToken implements SingleUseCapability                              *)

\* The presentation a call under way stands for.
LEMMA BusyPresentation ==
    ASSUME NEW s \in Scanners, scan[s] # Idle
    PROVE  /\ Presentations[s] = [busy |-> TRUE, token |-> scan[s].token,
                                 eligible |-> ~scan[s].usedSeen]
           /\ Presentations[s].busy
           /\ Presentations[s].token = scan[s].token
           /\ Presentations[s].eligible = ~scan[s].usedSeen
  BY DEF Presentations, Presentation

\* A step that moves a call on does not change the presentation it stands for.
LEMMA GotoPresentation ==
    ASSUME TypeOK, NEW s \in Scanners, scan[s] # Idle, NEW step \in Steps, Goto(s, step)
    PROVE  Presentations' = Presentations
  <1>1. /\ scan'[s] # Idle
        /\ scan'[s].token = scan[s].token
        /\ \A r \in Scanners \ {s} : scan'[r] = scan[r]
    BY GotoType
  <1>2. scan'[s].usedSeen = scan[s].usedSeen
    <2>1. scan[s] \in Scan
      BY BusyScan
    <2>2. scan'[s] = [scan[s] EXCEPT !.pc = step]
      BY GotoType
    <2>3. QED
      BY <2>1, <2>2 DEF Scan
  <1>3. ASSUME NEW r \in Scanners
        PROVE  Presentation(scan'[r]) = Presentation(scan[r])
    BY <1>1, <1>2 DEF Presentation
  <1>4. QED
    BY <1>3 DEF Presentations

\* Nor does burning the token, or failing to.
LEMMA BurnedPresentation ==
    ASSUME TypeOK, NEW s \in Scanners, scan[s] # Idle, NEW burned \in BOOLEAN,
           BurnedIs(s, burned)
    PROVE  Presentations' = Presentations
  <1>1. ASSUME NEW r \in Scanners
        PROVE  Presentation(scan'[r]) = Presentation(scan[r])
    <2>1. /\ scan'[s] # Idle /\ scan'[s].token = scan[s].token
          /\ scan'[s].usedSeen = scan[s].usedSeen
          /\ \A u \in Scanners \ {s} : scan'[u] = scan[u]
      BY BurnedIsType
    <2> QED
      BY <2>1 DEF Presentation
  <1> QED
    BY <1>1 DEF Presentations

\* A call that returns leaves its scanner idle.
LEMMA ReturnPresentation ==
    ASSUME TypeOK, NEW s \in Scanners, Return(s)
    PROVE  Presentations' = [Presentations EXCEPT ![s] = Contract!Idle]
  <1>1. Presentation(scan'[s]) = Contract!Idle
    BY ReturnType DEF Presentation, Contract!Idle
  <1>2. \A r \in Scanners \ {s} : Presentation(scan'[r]) = Presentation(scan[r])
    BY ReturnType
  <1>3. QED
    BY <1>1, <1>2 DEF Presentations

\* Refusing a presentation: the call returns, nothing is burned or granted.
LEMMA RefuseStep ==
    ASSUME TypeOK, NEW s \in Scanners, scan[s] # Idle, Return(s),
           UNCHANGED <<tokens, disclosures>>
    PROVE  Contract!Refuse(s)
  <1>1. Presentations[s].busy
    BY BusyPresentation
  <1>2. Burned' = Burned /\ Granted' = Granted
    BY DEF Burned, Granted
  <1>3. QED
    BY <1>1, <1>2, ReturnPresentation DEF Contract!Refuse

\* Moving on without touching a token or an answer is a stuttering step.
LEMMA GotoStutters ==
    ASSUME TypeOK, NEW s \in Scanners, scan[s] # Idle, NEW step \in Steps,
           Goto(s, step), UNCHANGED <<tokens, disclosures>>
    PROVE  UNCHANGED Contract!svars
  BY GotoPresentation DEF Contract!svars, Burned, Granted

\* Every step is one of the contract, or a stutter.
LEMMA ContractStep ==
    TypeOK /\ BurnInv /\ [Next]_vars => [Contract!Next]_(Contract!svars)
  <1> SUFFICES ASSUME TypeOK, BurnInv, [Next]_vars
               PROVE  Contract!Next \/ UNCHANGED Contract!svars
    OBVIOUS
  <1>1. ASSUME NEW t \in Tokens, NEW i \in Identities, NEW asked \in ScopeChoices,
               NEW d \in Durations, GenerateToken(t, i, asked, d)
        PROVE  UNCHANGED Contract!svars
    <2>1. ASSUME NEW u \in Tokens
          PROVE  (tokens'[u] # NoToken /\ tokens'[u].isUsed)
                   <=> (tokens[u] # NoToken /\ tokens[u].isUsed)
      <3>1. CASE u = t
        BY <1>1, <3>1 DEF GenerateToken, TypeOK
      <3>2. CASE u # t
        BY <1>1, <3>2 DEF GenerateToken, TypeOK
      <3>3. QED
        BY <3>1, <3>2
    <2>2. Burned' = Burned
      BY <2>1 DEF Burned
    <2>3. QED
      BY <1>1, <2>2 DEF GenerateToken, Contract!svars, Presentations, Granted
  <1>2. ASSUME NEW s \in Scanners, NEW t \in Tokens, GetToken(s, t)
        PROVE  Contract!Begin(s, t)
    <2>1. scan[s] = Idle /\ tokens[t] # NoToken /\ UNCHANGED <<tokens, disclosures>>
      BY <1>2 DEF GetToken, stores
    <2>2. ~Presentations[s].busy
      BY <2>1 DEF Presentations, Presentation
    <2>3. Presentation(scan'[s]) = Contract!Pending(t, t \notin Burned)
      <3>1. /\ scan'[s] # Idle /\ scan'[s].token = t
            /\ scan'[s].usedSeen = tokens[t].isUsed
        BY <1>2 DEF GetToken, TypeOK, Idle
      <3>2. (t \in Burned) = tokens[t].isUsed
        BY <2>1 DEF Burned, TypeOK, TokenRecord
      <3>3. QED
        BY <3>1, <3>2 DEF Presentation, Contract!Pending
    <2>4. Presentations' = [Presentations EXCEPT ![s] = Contract!Pending(t, t \notin Burned)]
      BY <1>2, <2>3 DEF Presentations, GetToken, TypeOK
    <2>5. QED
      BY <2>1, <2>2, <2>4 DEF Contract!Begin, Burned, Granted
  <1>3. ASSUME NEW s \in Scanners, NEW t \in Tokens, TokenNotFound(s, t)
        PROVE  UNCHANGED Contract!svars
    BY <1>3 DEF TokenNotFound, stores, Contract!svars, Burned, Presentations, Granted
  <1>4. ASSUME NEW s \in Scanners, CheckExpiry(s)
        PROVE  Contract!Refuse(s) \/ UNCHANGED Contract!svars
    <2>1. scan[s] # Idle /\ UNCHANGED <<tokens, disclosures>>
      BY <1>4, StepMeansBusy DEF CheckExpiry, stores, Steps
    <2>2. Return(s) \/ Goto(s, "used")
      BY <1>4 DEF CheckExpiry
    <2>3. QED
      BY <2>1, <2>2, RefuseStep, GotoStutters DEF Steps
  <1>5. ASSUME NEW s \in Scanners, CheckUsed(s)
        PROVE  Contract!Refuse(s) \/ UNCHANGED Contract!svars
    <2>1. scan[s] # Idle /\ UNCHANGED <<tokens, disclosures>>
      BY <1>5, StepMeansBusy DEF CheckUsed, stores, Steps
    <2>2. Return(s) \/ Goto(s, "mark")
      BY <1>5 DEF CheckUsed
    <2>3. QED
      BY <2>1, <2>2, RefuseStep, GotoStutters DEF Steps
  <1>6. ASSUME NEW s \in Scanners, MarkTokenUsed(s)
        PROVE  Contract!Burn(s) \/ UNCHANGED Contract!svars
    <2>0. CASE StoreMayFail /\ tokens' = tokens /\ BurnedIs(s, FALSE)
      <3>1. Presentations' = Presentations
        BY <1>6, <2>0, MarkSteps, BurnedPresentation
      <3> QED
        BY <1>6, <2>0, <3>1, MarkSteps DEF Contract!svars, Burned, Granted
    <2> SUFFICES ASSUME tokens' = [tokens EXCEPT ![scan[s].token].isUsed = TRUE],
                        BurnedIs(s, TRUE)
                 PROVE  Contract!Burn(s)
      BY <1>6, <2>0, MarkSteps
    <2>1. /\ scan[s] # Idle /\ scan[s].pc = "mark"
          /\ UNCHANGED disclosures
          /\ tokens' = [tokens EXCEPT ![scan[s].token].isUsed = TRUE]
      BY <1>6, MarkSteps
    <2>2. Presentations[s].busy /\ Presentations[s].eligible
      BY <2>1, BusyPresentation DEF BurnInv, UsedInv
    <2>3. /\ scan[s].token \in Tokens /\ Presented(s) \in TokenRecord
          /\ Presented(s) # NoToken
      BY <2>1, BusyScan DEF TypeOK, Presented
    <2>4. Burned' = Burned \cup {scan[s].token}
      <3>1. tokens'[scan[s].token] = [Presented(s) EXCEPT !.isUsed = TRUE]
        BY <2>1, <2>3 DEF TypeOK, Presented
      <3>2. tokens'[scan[s].token] \in TokenRecord /\ tokens'[scan[s].token].isUsed
        BY <2>3, <3>1 DEF TokenRecord
      <3>3. scan[s].token \in Burned'
        BY <2>3, <3>2, NoTokenAssumption DEF Burned
      <3>4. \A u \in Tokens \ {scan[s].token} : tokens'[u] = tokens[u]
        BY <2>1 DEF TypeOK
      <3>5. QED
        BY <2>3, <3>3, <3>4 DEF Burned
    <2>5. Presentations' = Presentations /\ Granted' = Granted
      BY <2>1, BurnedPresentation DEF Granted
    <2>6. Presentations[s].token = scan[s].token
      BY <2>1, BusyPresentation
    <2>7. QED
      BY <2>2, <2>4, <2>5, <2>6 DEF Contract!Burn
  <1>7. ASSUME NEW s \in Scanners, CheckIdentity(s)
        PROVE  Contract!Refuse(s) \/ UNCHANGED Contract!svars
    <2>1. scan[s] # Idle /\ UNCHANGED <<tokens, disclosures>>
      BY <1>7, StepMeansBusy DEF CheckIdentity, stores, Steps
    <2>2. Return(s) \/ Goto(s, "disclose")
      BY <1>7 DEF CheckIdentity
    <2>3. QED
      BY <2>1, <2>2, RefuseStep, GotoStutters DEF Steps
  <1>8. ASSUME NEW s \in Scanners, Answer(s)
        PROVE  Contract!Grant(s) \/ Contract!Refuse(s)
    <2> DEFINE answer(p) == [by |-> s, token |-> scan[s].token,
                             claims |-> Disclose(Presented(s).scopes, p),
                             began |-> scan[s].began, replay |-> scan[s].replay,
                             active |-> scan[s].active, burned |-> scan[s].burned]
    <2>1. scan[s] # Idle /\ scan[s].pc = "disclose" /\ Return(s) /\ UNCHANGED tokens
      BY <1>8, StepMeansBusy DEF Answer, stores, Steps
    <2>2. PICK p \in BOOLEAN : disclosures' = disclosures \cup {answer(p)}
      BY <1>8 DEF Answer
    <2>3. PICK d : /\ disclosures' = disclosures \cup {d}
                   /\ d.by = s /\ d.token = scan[s].token /\ d.burned = scan[s].burned
      <3>1. /\ answer(p).by = s /\ answer(p).token = scan[s].token
            /\ answer(p).burned = scan[s].burned
        OBVIOUS
      <3> HIDE DEF answer
      <3> QED
        BY <2>2, <3>1
    <2> HIDE DEF answer
    <2>4. \A e : e \in disclosures' <=> e \in disclosures \/ e = d
      BY <2>3
    <2>5. /\ Presentations[s].busy
          /\ Presentations[s].eligible = ~scan[s].usedSeen
          /\ Presentations[s].token = scan[s].token
      BY <2>1, BusyPresentation
    <2>6. Presentations' = [Presentations EXCEPT ![s] = Contract!Idle]
      BY <2>1, ReturnPresentation
    <2>7. Burned' = Burned
      BY <2>1 DEF Burned
    <2>8. CASE scan[s].burned
      <3>1. scan[s].token \in Burned /\ ~scan[s].usedSeen
        BY <2>1, <2>8, BusyScan DEF BurnInv, UsedInv, Burned, Presented, TypeOK
      <3>2. \A g : g \in Granted' <=> g \in Granted \/ g = <<d.by, d.token>>
        BY <2>3, <2>4, <2>8 DEF Granted
      <3>3. Granted' = Granted \cup {<<s, scan[s].token>>}
        BY <2>3, <3>2
      <3> QED
        BY <2>5, <2>6, <2>7, <3>1, <3>3 DEF Contract!Grant
    <2>9. CASE ~scan[s].burned
      <3>1. \A g : g \in Granted' <=> g \in Granted
        BY <2>3, <2>4, <2>9 DEF Granted
      <3>2. Granted' = Granted
        BY <3>1
      <3> QED
        BY <2>5, <2>6, <2>7, <3>2 DEF Contract!Refuse
    <2> QED
      BY <2>8, <2>9
  <1>9. ASSUME NEW i \in Identities, NEW st \in Statuses, UpdateStatus(i, st)
        PROVE  UNCHANGED Contract!svars
    <2>1. ASSUME NEW s \in Scanners
          PROVE  Presentation(scan'[s]) = Presentation(scan[s])
      <3>1. CASE scan[s] = Idle
        BY <1>9, <3>1 DEF UpdateStatus
      <3>2. CASE scan[s] # Idle
        <4>1. scan[s] \in Scan
          BY <3>2, BusyScan
        <4>2. /\ scan'[s].token = scan[s].token /\ scan'[s].usedSeen = scan[s].usedSeen
              /\ scan'[s].pc = scan[s].pc
          BY <1>9, <4>1 DEF UpdateStatus, Scan
        <4>3. scan'[s] # Idle
          BY <4>1, <4>2 DEF Scan, Idle, Steps
        <4>4. QED
          BY <3>2, <4>2, <4>3 DEF Presentation
      <3>3. QED
        BY <3>1, <3>2
    <2>2. QED
      BY <1>9, <2>1 DEF UpdateStatus, Contract!svars, Burned, Presentations, Granted
  <1>10. CASE Tick
    BY <1>10 DEF Tick, Contract!svars, Burned, Presentations, Granted
  <1>11. CASE UNCHANGED vars
    BY <1>11 DEF vars, Contract!svars, Burned, Presentations, Granted
  <1>12. QED
    BY <1>1, <1>2, <1>3, <1>4, <1>5, <1>6, <1>7, <1>8, <1>9, <1>10, <1>11
    DEF Next, VerifyToken, Contract!Next

(***************************************************************************)
(* Whatever fails, VerifyToken implements the contract of a single-use     *)
(* capability for the scans that burn their token: burned before it is     *)
(* honoured, and honoured only for presentations that began before it was  *)
(* burned.                                                                 *)
(***************************************************************************)
THEOREM VerifyTokenImplementsContract == Spec => ImplementsContract
  <1>1. Init => Contract!Init
    BY DEF Init, Contract!Init, Burned, Presentations, Presentation, Granted, Contract!Idle
  <1>2. TypeOK /\ BurnInv /\ [Next]_vars => [Contract!Next]_(Contract!svars)
    BY ContractStep
  <1>3. QED
    BY <1>1, <1>2, TypeCorrect, BurnInvariant, PTL
    DEF Spec, ImplementsContract, Contract!Spec
=============================================================================
