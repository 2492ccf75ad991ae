------------------------- MODULE RegistrationProofs -------------------------
(***************************************************************************)
(* Theorems about Registration and the duplicate score, for every set of   *)
(* registrations, emails, profiles, EKA IDs and faces.                     *)
(***************************************************************************)
EXTENDS Registration, TLAPS

-----------------------------------------------------------------------------
(* The duplicate score                                                     *)

IsFace(p) == p.face \in Faces \cup {None}

\* The biometric part of the score does not depend on the order of the profiles.
LEMMA BioScoreSymmetric ==
    ASSUME NEW p, NEW q, IsFace(p), IsFace(q)
    PROVE  /\ BioScore(p, q) \in Int
           /\ BioScore(p, q) = BioScore(q, p)
  <1>1. CASE p.face # None /\ q.face # None
    <2> DEFINE sim == Similarity[p.face, q.face]
    <2>1. sim \in Int /\ sim = Similarity[q.face, p.face]
      <3>1. p.face \in Faces /\ q.face \in Faces
        BY <1>1 DEF IsFace
      <3>2. <<p.face, q.face>> \in Faces \X Faces
        BY <3>1
      <3>3. Similarity[p.face, q.face] \in -100 .. 100
        BY <3>2, SimilarityAssumption
      <3>4. Similarity[p.face, q.face] = Similarity[q.face, p.face]
        BY <3>1, SimilarityAssumption
      <3>5. \A n \in -100 .. 100 : n \in Int
        OBVIOUS
      <3>6. Similarity[p.face, q.face] \in Int
        BY <3>3, <3>5
      <3>7. QED
        BY <3>4, <3>6
    <2> DEFINE scaled == 80 + ((sim - 80) * 95) \div 100
    <2>2. /\ BioScore(p, q) = IF sim < 80 THEN 0 ELSE IF scaled > 99 THEN 99 ELSE scaled
          /\ BioScore(q, p) = IF sim < 80 THEN 0 ELSE IF scaled > 99 THEN 99 ELSE scaled
      BY <1>1, <2>1 DEF BioScore
    <2>3. scaled \in Int
      <3>1. \A n \in Int : 80 + ((n - 80) * 95) \div 100 \in Int
        OBVIOUS
      <3>2. QED
        BY <2>1, <3>1
    <2> HIDE DEF scaled, sim
    <2>4. QED
      BY <2>2, <2>3
  <1>2. CASE ~(p.face # None /\ q.face # None)
    <2>1. SameField(p.photo, q.photo) <=> SameField(q.photo, p.photo)
      BY DEF SameField
    <2>2. /\ BioScore(p, q) = IF SameField(p.photo, q.photo) THEN 95 ELSE 0
          /\ BioScore(q, p) = IF SameField(q.photo, p.photo) THEN 95 ELSE 0
      BY <1>2 DEF BioScore, Points
    <2>3. CASE SameField(p.photo, q.photo)
      BY <2>1, <2>2, <2>3
    <2>4. CASE ~SameField(p.photo, q.photo)
      BY <2>1, <2>2, <2>4
    <2>5. QED
      BY <2>3, <2>4
  <1>3. QED
    BY <1>1, <1>2

(***************************************************************************)
(* Two profiles are duplicates whichever of the two is the newcomer        *)
(* (calculateSimilarity gives both orders the same score).                 *)
(***************************************************************************)
THEOREM DuplicatesSymmetric ==
    ASSUME NEW p, NEW q, IsFace(p), IsFace(q)
    PROVE  Duplicates(p, q) <=> Duplicates(q, p)
  <1>1. BioScore(p, q) = BioScore(q, p)
    BY BioScoreSymmetric
  <1>2. \A x, y : SameField(x, y) <=> SameField(y, x)
    BY DEF SameField
  <1>3. /\ Points(SameField(p.phone, q.phone), 50) = Points(SameField(q.phone, p.phone), 50)
        /\ Points(SameField(p.email, q.email), 45) = Points(SameField(q.email, p.email), 45)
        /\ Points(p.name = q.name, 30) = Points(q.name = p.name, 30)
        /\ Points(SameField(p.dob, q.dob), 25) = Points(SameField(q.dob, p.dob), 25)
    BY <1>2 DEF Points
  <1>4. Score(p, q) = Score(q, p)
    BY <1>1, <1>3 DEF Score
  <1>5. QED
    BY <1>4 DEF Duplicates

(***************************************************************************)
(* The preselection is complete: FindPotentialDuplicates selects every     *)
(* stored profile the score would flag.                                    *)
(***************************************************************************)
THEOREM DuplicatesAreCandidates ==
    ASSUME NEW p, NEW q, IsFace(p), IsFace(q), Duplicates(p, q)
    PROVE  Candidate(p, q)
  <1> SUFFICES ASSUME ~Candidate(p, q)
               PROVE  FALSE
    OBVIOUS
  <1>1. /\ ~SameField(p.phone, q.phone) /\ ~SameField(p.email, q.email)
        /\ q.photo = None /\ q.face = None
    BY DEF Candidate
  <1>2. BioScore(p, q) = 0
    BY <1>1 DEF BioScore, SameField, Points
  <1>3. /\ Points(SameField(p.phone, q.phone), 50) = 0
        /\ Points(SameField(p.email, q.email), 45) = 0
        /\ Points(p.name = q.name, 30) \in {0, 30}
        /\ Points(SameField(p.dob, q.dob), 25) \in {0, 25}
    BY <1>1 DEF Points
  <1>4. Score(p, q) < 70
    BY <1>2, <1>3 DEF Score
  <1>5. Score(p, q) \in Int
    BY <1>2, <1>3 DEF Score
  <1>6. QED
    BY <1>4, <1>5 DEF Duplicates, Threshold
-----------------------------------------------------------------------------
(* Type correctness                                                        *)

\* A pending code is a Code record.
LEMMA PendingCode ==
    ASSUME TypeOK, NEW e \in Emails, otp[e] # NoCode
    PROVE  /\ otp[e] \in Code
           /\ otp[e].issue \in 1 .. MaxIssues
           /\ otp[e].attempts \in 0 .. MaxAttempts
           /\ otp[e].expired \in BOOLEAN
  BY DEF TypeOK, Code

\* A registration that has a step to take is a Call record.
LEMMA BusyCall ==
    ASSUME TypeOK, NEW r \in Regs, call[r].pc \in Steps
    PROVE  /\ call[r] # Idle
           /\ call[r] \in Call
           /\ call[r].profile \in Profile
           /\ call[r].found \subseteq Regs
           /\ call[r].eka \in EkaIDs \cup {None}
           /\ call[r].missed \in BOOLEAN
  <1>1. call[r] # Idle
    BY DEF Idle, Steps
  <1>2. QED
    BY <1>1 DEF TypeOK, Call

\* A profile that was entered has an email, and is not the absence of one.
LEMMA ProfileType ==
    ASSUME NEW p \in Profile
    PROVE  /\ IsFace(p)
           /\ p.email \in Emails
           /\ p # NoProfile
  <1>1. PICK e \in Emails, fields \in ProfileChoices : p = ProfileOf(e, fields)
    BY DEF Profile
  <1>2. p.email = e /\ p.face = fields.face
    BY <1>1 DEF ProfileOf
  <1>3. NoProfile.email = None
    BY DEF NoProfile
  <1>4. QED
    BY <1>2, <1>3, RegistrationAssumption DEF IsFace

\* The call of r goes on with its next step.
LEMMA GotoType ==
    ASSUME TypeOK, NEW r \in Regs, call[r].pc \in Steps, NEW step \in Steps,
           Goto(r, step)
    PROVE  /\ call' \in [Regs -> Call \cup {Idle}]
           /\ call'[r] = [call[r] EXCEPT !.pc = step]
           /\ \A d \in Regs \ {r} : call'[d] = call[d]
  <1>1. call[r] \in Call
    BY BusyCall
  <1>2. [call[r] EXCEPT !.pc = step] \in Call
    BY <1>1 DEF Call
  <1>3. call' = [call EXCEPT ![r] = [call[r] EXCEPT !.pc = step]]
    BY DEF Goto
  <1>4. QED
    BY <1>2, <1>3 DEF TypeOK

\* The call Begin begins.
LEMMA BeginType ==
    ASSUME TypeOK, NEW r \in Regs, NEW e \in Emails, NEW fields \in ProfileChoices,
           NEW issue \in 0 .. MaxIssues, NEW guess \in Nat,
           Begin(r, e, fields, issue, guess)
    PROVE  /\ call' \in [Regs -> Call \cup {Idle}]
           /\ call'[r].pc = "lookup"
           /\ call'[r].profile = ProfileOf(e, fields)
           /\ call'[r].profile.email = e
           /\ call'[r].issue = issue
           /\ call'[r].guess = guess
           /\ \A d \in Regs \ {r} : call'[d] = call[d]
  <1> DEFINE next == [pc |-> "lookup", profile |-> ProfileOf(e, fields), issue |-> issue,
                      guess |-> guess, draws |-> 0, eka |-> None, found |-> {},
                      missed |-> FALSE]
  <1>1. ProfileOf(e, fields) \in Profile
    BY DEF Profile
  <1>2. next \in Call
    BY <1>1 DEF Call, Steps
  <1>3. call' = [call EXCEPT ![r] = next]
    BY DEF Begin
  <1>4. ProfileOf(e, fields).email = e
    BY DEF ProfileOf
  <1>5. QED
    BY <1>2, <1>3, <1>4 DEF TypeOK

\* What DrawEkaID, EvaluateDuplicates and CreateFlags leave in the call.
LEMMA DrawType ==
    ASSUME TypeOK, NEW r \in Regs, NEW k \in EkaIDs, DrawEkaID(r, k)
    PROVE  /\ call' \in [Regs -> Call \cup {Idle}]
           /\ call'[r].pc \in {"identity", "draw", "failed"}
           /\ call'[r].pc = "identity" => call'[r].eka = k
           /\ call'[r].profile = call[r].profile
           /\ call'[r].issue = call[r].issue
           /\ call'[r].guess = call[r].guess
           /\ \A d \in Regs \ {r} : call'[d] = call[d]
  <1>1. call[r] \in Call
    BY BusyCall DEF DrawEkaID, Steps
  <1>2. CASE call' = [call EXCEPT ![r].pc = "identity", ![r].eka = k]
    <2>1. [call[r] EXCEPT !.pc = "identity", !.eka = k] \in Call
      BY <1>1 DEF Call, Steps
    <2>2. call' = [call EXCEPT ![r] = [call[r] EXCEPT !.pc = "identity", !.eka = k]]
      BY <1>2
    <2>3. QED
      BY <1>1, <2>1, <2>2 DEF TypeOK, Call
  <1>3. CASE call' = [call EXCEPT
                ![r].draws = @ + 1,
                ![r].pc = IF call[r].draws + 1 = MaxRetries THEN "failed" ELSE "draw"]
    <2> DEFINE step == IF call[r].draws + 1 = MaxRetries THEN "failed" ELSE "draw"
    <2>1. step \in {"failed", "draw"}
      OBVIOUS
    <2>2. call' = [call EXCEPT ![r] = [call[r] EXCEPT !.draws = @ + 1, !.pc = step]]
      BY <1>3
    <2> HIDE DEF step
    <2>3. call[r].draws + 1 \in Nat
      BY <1>1 DEF Call
    <2>4. [call[r] EXCEPT !.draws = @ + 1, !.pc = step] \in Call
      BY <1>1, <2>1, <2>3 DEF Call, Steps
    <2>5. QED
      BY <1>1, <2>1, <2>2, <2>4 DEF TypeOK, Call
  <1>4. QED
    BY <1>2, <1>3 DEF DrawEkaID

\* What EvaluateDuplicates leaves in the call: all duplicates there are, or a miss.
LEMMA EvaluateType ==
    ASSUME TypeOK, NEW r \in Regs, EvaluateDuplicates(r)
    PROVE  /\ call' \in [Regs -> Call \cup {Idle}]
           /\ call'[r].pc = "flag"
           /\ call'[r].profile = call[r].profile
           /\ call'[r].issue = call[r].issue
           /\ call'[r].guess = call[r].guess
           /\ \/ call'[r].missed
              \/ call'[r].found = {d \in Candidates(r) :
                                     Duplicates(call[r].profile, profiles[d])}
           /\ \A d \in Regs \ {r} : call'[d] = call[d]
  <1>1. call[r] \in Call
    BY BusyCall DEF EvaluateDuplicates, Steps
  <1> DEFINE dups == {d \in Candidates(r) : Duplicates(call[r].profile, profiles[d])}
  <1>2. dups \in SUBSET Regs
    BY DEF Candidates
  <1>3. CASE call' = [call EXCEPT ![r].pc = "flag", ![r].found = dups]
    <2> HIDE DEF dups
    <2>1. [call[r] EXCEPT !.pc = "flag", !.found = dups] \in Call
      BY <1>1, <1>2 DEF Call, Steps
    <2>2. call' = [call EXCEPT ![r] = [call[r] EXCEPT !.pc = "flag", !.found = dups]]
      BY <1>3
    <2>3. call'[r].found = dups
      BY <1>1, <2>2 DEF TypeOK, Call
    <2>4. QED
      BY <1>1, <2>1, <2>2, <2>3 DEF TypeOK, Call, dups
  <1>4. CASE call' = [call EXCEPT ![r].pc = "flag", ![r].missed = TRUE]
    <2>1. [call[r] EXCEPT !.pc = "flag", !.missed = TRUE] \in Call
      BY <1>1 DEF Call, Steps
    <2>2. call' = [call EXCEPT ![r] = [call[r] EXCEPT !.pc = "flag", !.missed = TRUE]]
      BY <1>4
    <2>3. QED
      BY <1>1, <2>1, <2>2 DEF TypeOK, Call
  <1>5. QED
    BY <1>3, <1>4 DEF EvaluateDuplicates

\* What CreateFlags leaves in the call: a flag for all it found, or a miss.
LEMMA FlagsType ==
    ASSUME TypeOK, NEW r \in Regs, CreateFlags(r)
    PROVE  /\ call' \in [Regs -> Call \cup {Idle}]
           /\ flags' \subseteq Regs \X Regs
           /\ flags \subseteq flags'
           /\ call'[r].pc = "sign"
           /\ call'[r].profile = call[r].profile
           /\ call'[r].issue = call[r].issue
           /\ call'[r].guess = call[r].guess
           /\ call'[r].found = call[r].found
           /\ call[r].missed => call'[r].missed
           /\ call'[r].missed \/ \A d \in call[r].found : <<r, d>> \in flags'
           /\ \A d \in Regs \ {r} : call'[d] = call[d]
  <1>1. call[r] \in Call /\ call[r].found \in SUBSET Regs
    BY BusyCall DEF CreateFlags, Steps
  <1>2. PICK stored \in (IF CallsMayFail THEN SUBSET call[r].found ELSE {call[r].found}) :
          /\ flags' = flags \cup {<<r, d>> : d \in stored}
          /\ call' = [call EXCEPT ![r].pc = "sign",
                                ![r].missed = @ \/ stored # call[r].found]
    BY DEF CreateFlags
  <1>3. stored \subseteq call[r].found
    BY <1>2
  <1> DEFINE missed == call[r].missed \/ stored # call[r].found
  <1>4. [call[r] EXCEPT !.pc = "sign", !.missed = missed] \in Call
    BY <1>1 DEF Call, Steps
  <1>5. call' = [call EXCEPT ![r] = [call[r] EXCEPT !.pc = "sign", !.missed = missed]]
    BY <1>2
  <1>6. /\ call' \in [Regs -> Call \cup {Idle}]
        /\ call'[r] = [call[r] EXCEPT !.pc = "sign", !.missed = missed]
        /\ \A d \in Regs \ {r} : call'[d] = call[d]
    BY <1>4, <1>5 DEF TypeOK
  <1>7. /\ call'[r].pc = "sign" /\ call'[r].profile = call[r].profile
        /\ call'[r].issue = call[r].issue /\ call'[r].guess = call[r].guess
        /\ call'[r].found = call[r].found /\ call'[r].missed = missed
    BY <1>1, <1>6 DEF Call
  <1>8. missed \/ \A d \in call[r].found : <<r, d>> \in flags'
    BY <1>2
  <1>9. flags' \subseteq Regs \X Regs /\ flags \subseteq flags'
    BY <1>1, <1>2, <1>3 DEF TypeOK
  <1>10. QED
    BY <1>6, <1>7, <1>8, <1>9

AuditEvent == {"IDENTITY_CREATED", "USER_REGISTERED", "POSSIBLE_DUPLICATE_DETECTED"} \X Regs

\* The ledger only grows, by the events recorded.
LEMMA RecordType ==
    ASSUME NEW events \in SUBSET AuditEvent, audit \subseteq AuditEvent, Record(events)
    PROVE  /\ audit' \subseteq AuditEvent
           /\ audit' \subseteq audit \cup events
  BY DEF Record

\* A step of Register leaves the other calls, and the profile and the code of
\* its own, alone.
LEMMA RegisterCall ==
    ASSUME TypeOK, NEW r \in Regs, Register(r)
    PROVE  /\ call[r] # Idle
           /\ call' \in [Regs -> Call \cup {Idle}]
           /\ call'[r] # Idle
           /\ call'[r].pc \in Steps
           /\ call'[r].profile = call[r].profile
           /\ call'[r].issue = call[r].issue
           /\ call'[r].guess = call[r].guess
           /\ \A d \in Regs \ {r} : call'[d] = call[d]
           /\ UNCHANGED codes
  <1> DEFINE Goal ==
        /\ call' \in [Regs -> Call \cup {Idle}]
        /\ call'[r].pc \in Steps
        /\ call'[r].profile = call[r].profile
        /\ call'[r].issue = call[r].issue
        /\ call'[r].guess = call[r].guess
        /\ \A d \in Regs \ {r} : call'[d] = call[d]
  <1>1. call[r].pc \in Steps /\ UNCHANGED codes
    BY DEF Register, LookupUser, CreateUser, DrawEkaID, CreateIdentity, CreateProfile,
           EvaluateDuplicates, CreateFlags, SignToken, Fail, Steps
  <1>2. call[r] # Idle /\ call[r] \in Call
    BY <1>1, BusyCall
  <1>3. ASSUME NEW step \in Steps, Goto(r, step)
        PROVE  Goal
    <2>1. /\ call' \in [Regs -> Call \cup {Idle}]
          /\ call'[r] = [call[r] EXCEPT !.pc = step]
          /\ \A d \in Regs \ {r} : call'[d] = call[d]
      BY <1>1, <1>3, GotoType
    <2>2. QED
      BY <1>2, <2>1 DEF Call
  <1>4. ASSUME LookupUser(r) PROVE Goal
    BY <1>3, <1>4 DEF LookupUser, Steps
  <1>5. ASSUME CreateUser(r) PROVE Goal
    BY <1>3, <1>5 DEF CreateUser, Steps
  <1>6. ASSUME \E k \in EkaIDs : DrawEkaID(r, k) PROVE Goal
    BY <1>6, DrawType DEF Steps
  <1>7. ASSUME CreateIdentity(r) PROVE Goal
    BY <1>3, <1>7 DEF CreateIdentity, Steps
  <1>8. ASSUME CreateProfile(r) PROVE Goal
    BY <1>3, <1>8 DEF CreateProfile, Steps
  <1>9. ASSUME EvaluateDuplicates(r) PROVE Goal
    BY <1>9, EvaluateType DEF Steps
  <1>10. ASSUME CreateFlags(r) PROVE Goal
    BY <1>10, FlagsType DEF Steps
  <1>11. ASSUME SignToken(r) PROVE Goal
    BY <1>3, <1>11 DEF SignToken, Steps
  <1>12. ASSUME Fail(r) PROVE Goal
    BY <1>3, <1>12 DEF Fail, Steps
  <1>13. Goal
    BY <1>4, <1>5, <1>6, <1>7, <1>8, <1>9, <1>10, <1>11, <1>12 DEF Register
  <1>14. call'[r] # Idle
    BY <1>13 DEF Idle, Steps
  <1>15. QED
    BY <1>1, <1>2, <1>13, <1>14

\* An EKA ID is created only after it was drawn.
DrawnBeforeUse == \A r \in Regs : call[r].pc = "identity" => call[r].eka \in EkaIDs

\* The initial state is well typed.
LEMMA TypeInit == Init => TypeOK /\ DrawnBeforeUse
  BY RegistrationAssumption DEF Init, TypeOK, DrawnBeforeUse, Idle

\* An EKA ID is drawn before the step that creates the identity.
LEMMA DrawnStep == TypeOK /\ DrawnBeforeUse /\ [Next]_vars => DrawnBeforeUse'
  <1> SUFFICES ASSUME TypeOK, DrawnBeforeUse, [Next]_vars
               PROVE  DrawnBeforeUse'
    OBVIOUS
  <1>1. ASSUME UNCHANGED call
        PROVE  DrawnBeforeUse'
    BY <1>1 DEF DrawnBeforeUse
  <1>2. ASSUME NEW r \in Regs, NEW e \in Emails, NEW fields \in ProfileChoices,
               AcceptOTP(r, e, fields) \/ AcceptMockOTP(r, e, fields)
        PROVE  DrawnBeforeUse'
    <2>1. PICK issue \in 0 .. MaxIssues, guess \in Nat : Begin(r, e, fields, issue, guess)
      BY <1>2, PendingCode, RegistrationAssumption DEF AcceptOTP, AcceptMockOTP
    <2>2. QED
      BY <2>1, BeginType DEF DrawnBeforeUse
  <1>3. ASSUME NEW r \in Regs, Register(r)
        PROVE  DrawnBeforeUse'
    <2>1. /\ call'[r].pc \in Steps
          /\ \A d \in Regs \ {r} : call'[d] = call[d]
      BY <1>3, RegisterCall
    <2>2. SUFFICES ASSUME call'[r].pc = "identity"
                   PROVE  call'[r].eka \in EkaIDs
      BY <2>1 DEF DrawnBeforeUse
    <2>3. CASE \E k \in EkaIDs : DrawEkaID(r, k)
      BY <2>2, <2>3, DrawType
    <2>4. ASSUME NEW step \in Steps \ {"identity"}, Goto(r, step), call[r].pc \in Steps
          PROVE  FALSE
      <3>1. call'[r] = [call[r] EXCEPT !.pc = step]
        BY <2>4, GotoType
      <3>2. call[r] \in Call
        BY <2>4, BusyCall
      <3>3. call'[r].pc = step
        BY <3>1, <3>2 DEF Call
      <3>4. QED
        BY <2>2, <2>4, <3>3
    <2>5. QED
      BY <1>3, <2>2, <2>3, <2>4, EvaluateType, FlagsType
         DEF Register, LookupUser, CreateUser, CreateIdentity, CreateProfile, SignToken, Fail,
             Steps
  <1>4. QED
    BY <1>1, <1>2, <1>3 DEF Next, vars, RequestOTP, ExpireOTP, DropOTP, GuessWrong

\* Every step keeps the type.
LEMMA TypeStep == TypeOK /\ DrawnBeforeUse /\ [Next]_vars => TypeOK'
  <1> SUFFICES ASSUME TypeOK, DrawnBeforeUse, [Next]_vars
               PROVE  TypeOK'
    OBVIOUS
  <1> USE RegistrationAssumption
  <1>1. CASE UNCHANGED vars
    BY <1>1 DEF vars, TypeOK
  <1>2. ASSUME NEW e \in Emails, RequestOTP(e)
        PROVE  TypeOK'
    <2>1. issued[e] + 1 \in 1 .. MaxIssues
      BY <1>2 DEF RequestOTP, TypeOK
    <2>2. [issue |-> issued[e] + 1, attempts |-> 0, expired |-> FALSE] \in Code
      BY <2>1 DEF Code
    <2>3. QED
      BY <1>2, <2>1, <2>2 DEF RequestOTP, TypeOK
  <1>3. ASSUME NEW e \in Emails, ExpireOTP(e)
        PROVE  TypeOK'
    <2>1. [otp[e] EXCEPT !.expired = TRUE] \in Code
      BY <1>3, PendingCode DEF ExpireOTP, Code
    <2>2. otp' = [otp EXCEPT ![e] = [otp[e] EXCEPT !.expired = TRUE]]
      BY <1>3 DEF ExpireOTP
    <2>3. QED
      BY <1>3, <2>1, <2>2 DEF ExpireOTP, TypeOK
  <1>4. ASSUME NEW e \in Emails, DropOTP(e)
        PROVE  TypeOK'
    BY <1>4 DEF DropOTP, TypeOK
  <1>5. ASSUME NEW e \in Emails, GuessWrong(e)
        PROVE  TypeOK'
    <2>1. otp[e].attempts + 1 \in 0 .. MaxAttempts
      BY <1>5, PendingCode DEF GuessWrong, Exhausted
    <2>2. [otp[e] EXCEPT !.attempts = @ + 1] \in Code
      BY <1>5, <2>1, PendingCode DEF GuessWrong, Code
    <2>3. otp' = [otp EXCEPT ![e] = [otp[e] EXCEPT !.attempts = @ + 1]]
      BY <1>5 DEF GuessWrong
    <2>4. QED
      BY <1>5, <2>2, <2>3 DEF GuessWrong, TypeOK
  <1>6. ASSUME NEW r \in Regs, NEW e \in Emails, NEW fields \in ProfileChoices,
               AcceptOTP(r, e, fields)
        PROVE  TypeOK'
    <2>1. otp[e].issue \in 0 .. MaxIssues /\ otp[e].attempts + 1 \in Nat
      BY <1>6, PendingCode DEF AcceptOTP
    <2>2. call' \in [Regs -> Call \cup {Idle}]
      BY <1>6, <2>1, BeginType DEF AcceptOTP
    <2>3. QED
      BY <1>6, <2>2 DEF AcceptOTP, TypeOK
  <1>7. ASSUME NEW r \in Regs, NEW e \in Emails, NEW fields \in ProfileChoices,
               AcceptMockOTP(r, e, fields)
        PROVE  TypeOK'
    <2>1. call' \in [Regs -> Call \cup {Idle}]
      BY <1>7, BeginType DEF AcceptMockOTP
    <2>2. QED
      BY <1>7, <2>1 DEF AcceptMockOTP, TypeOK, codes
  <1>8. ASSUME NEW r \in Regs, Register(r)
        PROVE  TypeOK'
    <2>1. call' \in [Regs -> Call \cup {Idle}] /\ UNCHANGED codes
      BY <1>8, RegisterCall
    <2>2. users' \subseteq Regs \X Emails
      <3>1. CASE CreateUser(r)
        <4>1. call[r].profile.email \in Emails
          BY <3>1, BusyCall, ProfileType DEF CreateUser, Steps
        <4>2. QED
          BY <3>1, <4>1 DEF CreateUser, TypeOK
      <3>2. CASE UNCHANGED users
        BY <3>2 DEF TypeOK
      <3>3. QED
        BY <1>8, <3>1, <3>2 DEF Register, LookupUser, DrawEkaID, CreateIdentity,
           CreateProfile, EvaluateDuplicates, CreateFlags, SignToken, Fail
    <2>3. identities' \subseteq Regs \X EkaIDs
      <3>1. CASE CreateIdentity(r)
        <4>1. call[r].eka \in EkaIDs
          BY <3>1 DEF CreateIdentity, DrawnBeforeUse
        <4>2. QED
          BY <3>1, <4>1 DEF CreateIdentity, TypeOK
      <3>2. CASE UNCHANGED identities
        BY <3>2 DEF TypeOK
      <3>3. QED
        BY <1>8, <3>1, <3>2 DEF Register, LookupUser, CreateUser, DrawEkaID,
           CreateProfile, EvaluateDuplicates, CreateFlags, SignToken, Fail
    <2>4. profiles' \in [Regs -> Profile \cup {NoProfile}]
      <3>1. CASE CreateProfile(r)
        <4>1. call[r].profile \in Profile
          BY <3>1, BusyCall DEF CreateProfile, Steps
        <4>2. QED
          BY <3>1, <4>1 DEF CreateProfile, TypeOK
      <3>2. CASE UNCHANGED profiles
        BY <3>2 DEF TypeOK
      <3>3. QED
        BY <1>8, <3>1, <3>2 DEF Register, LookupUser, CreateUser, DrawEkaID,
           CreateIdentity, EvaluateDuplicates, CreateFlags, SignToken, Fail
    <2>5. flags' \subseteq Regs \X Regs
      <3>1. CASE CreateFlags(r)
        BY <3>1, FlagsType
      <3>2. CASE UNCHANGED flags
        BY <3>2 DEF TypeOK
      <3>3. QED
        BY <1>8, <3>1, <3>2 DEF Register, LookupUser, CreateUser, DrawEkaID,
           CreateIdentity, CreateProfile, EvaluateDuplicates, SignToken, Fail
    <2>6. audit' \subseteq AuditEvent
      <3>1. audit \subseteq AuditEvent
        BY DEF TypeOK, AuditEvent
      <3>2. CASE CreateIdentity(r)
        <4>1. {<<"IDENTITY_CREATED", r>>} \in SUBSET AuditEvent
          BY DEF AuditEvent
        <4>2. QED
          BY <3>1, <3>2, <4>1, RecordType DEF CreateIdentity
      <3>3. CASE CreateFlags(r)
        <4>1. (IF call[r].found = {} THEN {}
               ELSE {<<"POSSIBLE_DUPLICATE_DETECTED", r>>}) \in SUBSET AuditEvent
          BY DEF AuditEvent
        <4>2. QED
          BY <3>1, <3>3, <4>1, RecordType DEF CreateFlags
      <3>4. CASE SignToken(r)
        <4>1. {<<"USER_REGISTERED", r>>} \in SUBSET AuditEvent
          BY DEF AuditEvent
        <4>2. QED
          BY <3>1, <3>4, <4>1, RecordType DEF SignToken
      <3>5. CASE UNCHANGED audit
        BY <3>1, <3>5
      <3>6. QED
        BY <1>8, <3>2, <3>3, <3>4, <3>5 DEF Register, LookupUser, CreateUser, DrawEkaID,
           CreateProfile, EvaluateDuplicates, Fail
    <2>7. QED
      BY <2>1, <2>2, <2>3, <2>4, <2>5, <2>6 DEF TypeOK, AuditEvent, codes
  <1>9. QED
    BY <1>1, <1>2, <1>3, <1>4, <1>5, <1>6, <1>7, <1>8 DEF Next

(***************************************************************************)
(* Every reachable state is well typed: in particular the guesses of a     *)
(* pending code never exceed the limit.                                    *)
(***************************************************************************)
THEOREM TypeCorrect == Spec => []TypeOK
  BY TypeInit, TypeStep, DrawnStep, PTL DEF Spec
-----------------------------------------------------------------------------
(* Uniqueness                                                              *)

\* Only CreateUser adds an account, for an email that has none at that instant.
LEMMA AccountsStep == AccountsUnique /\ TypeOK /\ [Next]_vars => AccountsUnique'
  <1> SUFFICES ASSUME AccountsUnique, TypeOK, [Next]_vars
               PROVE  AccountsUnique'
    OBVIOUS
  <1>1. CASE UNCHANGED users
    BY <1>1 DEF AccountsUnique
  <1>2. ASSUME NEW r \in Regs, CreateUser(r)
        PROVE  AccountsUnique'
    BY <1>2, <1>1 DEF CreateUser, EmailTaken, AccountsUnique
  <1>3. QED
    BY <1>1, <1>2 DEF Next, vars, codes, RequestOTP, ExpireOTP, DropOTP, GuessWrong,
       AcceptOTP, AcceptMockOTP, Register, LookupUser, DrawEkaID, CreateIdentity,
       CreateProfile, EvaluateDuplicates, CreateFlags, SignToken, Fail

(***************************************************************************)
(* However many registrations race for an email, at most one account has   *)
(* it.                                                                     *)
(***************************************************************************)
THEOREM AccountsAreUnique == Spec => []AccountsUnique
  <1>1. Init => AccountsUnique
    BY DEF Init, AccountsUnique
  <1>2. QED
    BY <1>1, AccountsStep, TypeCorrect, PTL DEF Spec

\* Only CreateIdentity adds an identity, with an EKA ID that is free at that instant.
LEMMA EkaIDsStep == EkaIDsUnique /\ TypeOK /\ [Next]_vars => EkaIDsUnique'
  <1> SUFFICES ASSUME EkaIDsUnique, TypeOK, [Next]_vars
               PROVE  EkaIDsUnique'
    OBVIOUS
  <1>1. CASE UNCHANGED identities
    BY <1>1 DEF EkaIDsUnique
  <1>2. ASSUME NEW r \in Regs, CreateIdentity(r)
        PROVE  EkaIDsUnique'
    BY <1>2, <1>1 DEF CreateIdentity, EkaTaken, EkaIDsUnique
  <1>3. QED
    BY <1>1, <1>2 DEF Next, vars, codes, RequestOTP, ExpireOTP, DropOTP, GuessWrong,
       AcceptOTP, AcceptMockOTP, Register, LookupUser, CreateUser, DrawEkaID,
       CreateProfile, EvaluateDuplicates, CreateFlags, SignToken, Fail

(***************************************************************************)
(* However many registrations draw the same EKA ID, at most one identity   *)
(* has it.                                                                 *)
(***************************************************************************)
THEOREM EkaIDsAreUnique == Spec => []EkaIDsUnique
  <1>1. Init => EkaIDsUnique
    BY DEF Init, EkaIDsUnique
  <1>2. QED
    BY <1>1, EkaIDsStep, TypeCorrect, PTL DEF Spec

-----------------------------------------------------------------------------
(* One-time codes: a pending code is the last one issued, and later than   *)
(* every code that was spent.                                              *)

CodesAdvance ==
    /\ \A e \in Emails : otp[e] # NoCode => otp[e].issue = issued[e]
    /\ \A r \in Regs : call[r] # Idle =>
         /\ call[r].issue <= issued[call[r].profile.email]
         /\ otp[call[r].profile.email] # NoCode =>
              call[r].issue < otp[call[r].profile.email].issue

CodeInv == CodesAdvance /\ CodesSpentOnce

\* At the beginning no code was issued or spent.
LEMMA CodeInit == Init => CodeInv
  BY DEF Init, CodeInv, CodesAdvance, CodesSpentOnce

\* The fields of a call that was begun.
LEMMA BegunCall ==
    ASSUME TypeOK, NEW r \in Regs, call[r] # Idle
    PROVE  /\ call[r].profile.email \in Emails
           /\ call[r].issue \in 0 .. MaxIssues
           /\ call[r].guess \in Nat
  <1>1. call[r] \in Call
    BY DEF TypeOK
  <1>2. QED
    BY <1>1, ProfileType DEF Call

\* A step that only moves the codes of e on, or drops one.
LEMMA CodeStepOTP ==
    ASSUME TypeOK, CodeInv, NEW e \in Emails,
           RequestOTP(e) \/ ExpireOTP(e) \/ DropOTP(e) \/ GuessWrong(e)
    PROVE  CodeInv'
  <1>1. UNCHANGED call
    BY DEF RequestOTP, ExpireOTP, DropOTP, GuessWrong
  <1>2. CodesSpentOnce'
    BY <1>1 DEF CodeInv, CodesSpentOnce, Spent
  <1>3. \A f \in Emails \ {e} : otp'[f] = otp[f] /\ issued'[f] = issued[f]
    BY DEF RequestOTP, ExpireOTP, DropOTP, GuessWrong, TypeOK
  <1>4. issued[e] \in Nat /\ issued'[e] \in Nat /\ issued[e] <= issued'[e]
    BY RegistrationAssumption DEF RequestOTP, ExpireOTP, DropOTP, GuessWrong, TypeOK
  <1>5. otp'[e] # NoCode =>
          /\ otp'[e].issue = issued'[e]
          /\ \/ issued[e] < otp'[e].issue
             \/ otp[e] # NoCode /\ otp'[e].issue = otp[e].issue
    <2>1. CASE RequestOTP(e)
      <3>1. issued'[e] = issued[e] + 1 /\ otp'[e].issue = issued[e] + 1
        BY <2>1 DEF RequestOTP, TypeOK
      <3>2. QED
        BY <1>4, <3>1
    <2>2. CASE ExpireOTP(e)
      <3>1. otp[e] \in Code /\ otp[e] # NoCode
        BY <2>2, PendingCode DEF ExpireOTP
      <3>2. otp'[e] = [otp[e] EXCEPT !.expired = TRUE]
        BY <2>2 DEF ExpireOTP, TypeOK
      <3>3. otp'[e].issue = otp[e].issue
        BY <3>1, <3>2 DEF Code
      <3>4. QED
        BY <2>2, <3>1, <3>3 DEF ExpireOTP, CodeInv, CodesAdvance
    <2>3. CASE DropOTP(e)
      BY <2>3 DEF DropOTP, TypeOK
    <2>4. CASE GuessWrong(e)
      <3>1. otp[e] \in Code /\ otp[e] # NoCode
        BY <2>4, PendingCode DEF GuessWrong
      <3>2. otp'[e] = [otp[e] EXCEPT !.attempts = @ + 1]
        BY <2>4 DEF GuessWrong, TypeOK
      <3>3. otp'[e].issue = otp[e].issue
        BY <3>1, <3>2 DEF Code
      <3>4. QED
        BY <2>4, <3>1, <3>3 DEF GuessWrong, CodeInv, CodesAdvance
    <2>5. QED
      BY <2>1, <2>2, <2>3, <2>4
  <1>6. ASSUME NEW r \in Regs, call[r] # Idle
        PROVE  /\ call[r].issue <= issued'[call[r].profile.email]
               /\ otp'[call[r].profile.email] # NoCode =>
                    call[r].issue < otp'[call[r].profile.email].issue
    <2>1. /\ call[r].issue \in Nat
          /\ call[r].issue <= issued[call[r].profile.email]
          /\ otp[call[r].profile.email] # NoCode =>
               call[r].issue < otp[call[r].profile.email].issue
      BY <1>6, BegunCall, RegistrationAssumption DEF CodeInv, CodesAdvance
    <2>2. CASE call[r].profile.email = e
      <3>1. call[r].issue <= issued'[e]
        BY <1>4, <2>1, <2>2
      <3>2. ASSUME otp'[e] # NoCode
            PROVE  call[r].issue < otp'[e].issue
        <4>1. otp'[e].issue = issued'[e]
          BY <1>5, <3>2
        <4>2. QED
          BY <1>4, <1>5, <2>1, <2>2, <3>2, <4>1
      <3>3. QED
        BY <2>2, <3>1, <3>2
    <2>3. CASE call[r].profile.email # e
      BY <1>3, <1>6, <2>1, <2>3, BegunCall
    <2>4. QED
      BY <2>2, <2>3
  <1>7. \A f \in Emails : otp'[f] # NoCode => otp'[f].issue = issued'[f]
    BY <1>3, <1>5 DEF CodeInv, CodesAdvance
  <1>8. QED
    BY <1>1, <1>2, <1>6, <1>7 DEF CodeInv, CodesAdvance

\* A right code is spent by the registration it lets through.
LEMMA CodeStepAccept ==
    ASSUME TypeOK, CodeInv, NEW r \in Regs, NEW e \in Emails,
           NEW fields \in ProfileChoices,
           AcceptOTP(r, e, fields) \/ AcceptMockOTP(r, e, fields)
    PROVE  CodeInv'
  <1> USE RegistrationAssumption
  <1> DEFINE issue == IF otp[e] = NoCode THEN 0 ELSE otp[e].issue
             guess == IF otp[e] = NoCode THEN 1 ELSE otp[e].attempts + 1
  <1>1. /\ issue \in 0 .. MaxIssues /\ guess \in Nat /\ guess <= MaxAttempts
        /\ Begin(r, e, fields, issue, guess)
        /\ UNCHANGED issued
        /\ otp' = [otp EXCEPT ![e] = NoCode]
    <2>1. CASE AcceptOTP(r, e, fields)
      <3>1. otp[e] # NoCode /\ ~Exhausted(e)
        BY <2>1 DEF AcceptOTP
      <3>2. /\ otp[e].issue \in 0 .. MaxIssues /\ otp[e].attempts + 1 \in Nat
            /\ otp[e].attempts + 1 <= MaxAttempts
        BY <3>1, PendingCode DEF Exhausted
      <3>3. QED
        BY <2>1, <3>1, <3>2 DEF AcceptOTP
    <2>2. CASE AcceptMockOTP(r, e, fields)
      BY <2>2 DEF AcceptMockOTP, codes, TypeOK
    <2>3. QED
      BY <2>1, <2>2
  <1>2. issue # 0 => otp[e] # NoCode /\ issue = otp[e].issue
    OBVIOUS
  <1>3. issue <= issued[e]
    <2>1. otp[e] # NoCode => otp[e].issue = issued[e]
      BY DEF CodeInv, CodesAdvance
    <2>2. issued[e] \in Nat
      BY DEF TypeOK
    <2>3. QED
      BY <2>1, <2>2
  <1> HIDE DEF issue, guess
  <1>4. /\ call'[r].pc = "lookup"
        /\ call'[r].profile.email = e
        /\ call'[r].issue = issue
        /\ call'[r].guess = guess
        /\ \A d \in Regs \ {r} : call'[d] = call[d]
    BY <1>1, BeginType
  <1>5. otp'[e] = NoCode /\ \A f \in Emails \ {e} : otp'[f] = otp[f]
    BY <1>1 DEF TypeOK
  <1>6. CodesAdvance'
    <2>1. \A f \in Emails : otp'[f] # NoCode => otp'[f].issue = issued'[f]
      BY <1>1, <1>5 DEF CodeInv, CodesAdvance
    <2>2. ASSUME NEW d \in Regs, call'[d] # Idle
          PROVE  /\ call'[d].issue <= issued'[call'[d].profile.email]
                 /\ otp'[call'[d].profile.email] # NoCode =>
                      call'[d].issue < otp'[call'[d].profile.email].issue
      <3>1. CASE d = r
        BY <1>1, <1>3, <1>4, <1>5, <3>1
      <3>2. CASE d # r
        BY <1>1, <1>4, <1>5, <2>2, <3>2, BegunCall DEF CodeInv, CodesAdvance
      <3>3. QED
        BY <3>1, <3>2
    <2>3. QED
      BY <2>1, <2>2 DEF CodesAdvance
  <1>7. CodesSpentOnce'
    <2>1. ASSUME NEW d \in Regs \ {r}, call[d] # Idle, issue # 0
          PROVE  ~(call[d].profile.email = e /\ call[d].issue = issue)
      <3>1. call[d].profile.email = e => call[d].issue < issue
        BY <1>2, <2>1 DEF CodeInv, CodesAdvance
      <3>2. call[d].issue \in Int
        BY <2>1, BegunCall
      <3>3. QED
        BY <3>1, <3>2, <1>1
    <2>2. ASSUME NEW d \in Regs, call'[d] # Idle
          PROVE  call'[d].guess <= MaxAttempts
      BY <1>1, <1>4, <2>2 DEF CodeInv, CodesSpentOnce
    <2>3. ASSUME NEW c \in Regs, NEW d \in Regs \ {c},
                 call'[c] # Idle, call'[d] # Idle, call'[c].issue # 0
          PROVE  ~(/\ call'[c].profile.email = call'[d].profile.email
                   /\ call'[c].issue = call'[d].issue)
      <3>1. CASE c # r /\ d # r
        BY <1>4, <2>3, <3>1 DEF CodeInv, CodesSpentOnce, Spent
      <3>2. CASE c = r
        BY <1>4, <2>1, <2>3, <3>2
      <3>3. CASE d = r
        BY <1>4, <2>1, <2>3, <3>3
      <3>4. QED
        BY <3>1, <3>2, <3>3
    <2>4. QED
      BY <2>2, <2>3 DEF CodesSpentOnce, Spent
  <1>8. QED
    BY <1>6, <1>7 DEF CodeInv

\* Every step keeps the order of the codes.
LEMMA CodeStep == CodeInv /\ TypeOK /\ [Next]_vars => CodeInv'
  <1> SUFFICES ASSUME CodeInv, TypeOK, [Next]_vars
               PROVE  CodeInv'
    OBVIOUS
  <1>1. CASE UNCHANGED vars
    BY <1>1 DEF vars, CodeInv, CodesAdvance, CodesSpentOnce, Spent
  <1>2. ASSUME NEW r \in Regs, Register(r)
        PROVE  CodeInv'
    <2>1. /\ UNCHANGED codes /\ call[r] # Idle
          /\ call'[r].profile = call[r].profile
          /\ call'[r].issue = call[r].issue /\ call'[r].guess = call[r].guess
          /\ \A d \in Regs \ {r} : call'[d] = call[d]
      BY <1>2, RegisterCall
    <2>2. \A d \in Regs : /\ call'[d] # Idle => call[d] # Idle
                          /\ call'[d].profile = call[d].profile
                          /\ call'[d].issue = call[d].issue
                          /\ call'[d].guess = call[d].guess
      BY <2>1
    <2>3. QED
      BY <2>1, <2>2 DEF CodeInv, CodesAdvance, CodesSpentOnce, Spent, codes
  <1>3. QED
    BY <1>1, <1>2, CodeStepOTP, CodeStepAccept DEF Next

(***************************************************************************)
(* A one-time code lets at most one registration through, within the       *)
(* guesses allowed.                                                        *)
(***************************************************************************)
THEOREM CodesAreSpentOnce == Spec => []CodesSpentOnce
  <1>1. CodeInv => CodesSpentOnce
    BY DEF CodeInv
  <1>2. QED
    BY <1>1, CodeInit, CodeStep, TypeCorrect, PTL DEF Spec
-----------------------------------------------------------------------------
(* What is stored hangs together: how far a registration got tells what it *)
(* has stored.                                                             *)

PastUser == {"draw", "identity", "profile", "evaluate", "flag", "sign", "registered"}

PastIdentity == {"profile", "evaluate", "flag", "sign", "registered"}

PastProfile == {"evaluate", "flag", "sign", "registered"}

StageOf(r) ==
    /\ call[r].pc \in PastUser => HasUser(r)
    /\ call[r].pc \in PastIdentity => HasIdentity(r)
    /\ call[r].pc \in PastProfile => profiles[r] = call[r].profile
    /\ HasIdentity(r) => HasUser(r)
    /\ profiles[r] # NoProfile => HasIdentity(r)
    /\ <<"IDENTITY_CREATED", r>> \in audit => HasIdentity(r)
    /\ <<"USER_REGISTERED", r>> \in audit => Registered(r)

StageInv == \A r \in Regs : StageOf(r)

\* At the beginning nothing is stored.
LEMMA StageInit == Init => StageInv
  BY DEF Init, StageInv, StageOf, HasIdentity, HasUser, Registered, Idle,
         PastUser, PastIdentity, PastProfile

\* A step of the registration r, whose next step is known, leaves the stages
\* of the others alone.
LEMMA StageOthers ==
    ASSUME TypeOK, StageInv, NEW r \in Regs, Register(r), NEW d \in Regs \ {r}
    PROVE  StageOf(d)'
  <1>1. call'[d] = call[d]
    BY RegisterCall
  <1>2. profiles'[d] = profiles[d]
    BY DEF Register, LookupUser, CreateUser, DrawEkaID, CreateIdentity, CreateProfile,
           EvaluateDuplicates, CreateFlags, SignToken, Fail, TypeOK
  <1>3. HasUser(d)' <=> HasUser(d)
    BY DEF Register, LookupUser, CreateUser, DrawEkaID, CreateIdentity, CreateProfile,
           EvaluateDuplicates, CreateFlags, SignToken, Fail, HasUser
  <1>4. HasIdentity(d)' <=> HasIdentity(d)
    BY DEF Register, LookupUser, CreateUser, DrawEkaID, CreateIdentity, CreateProfile,
           EvaluateDuplicates, CreateFlags, SignToken, Fail, HasIdentity
  <1>5. ASSUME NEW action \in {"IDENTITY_CREATED", "USER_REGISTERED"},
               <<action, d>> \in audit'
        PROVE  <<action, d>> \in audit
    BY <1>5 DEF Register, LookupUser, CreateUser, DrawEkaID, CreateIdentity,
       CreateProfile, EvaluateDuplicates, CreateFlags, SignToken, Fail, Record
  <1>6. QED
    BY <1>1, <1>2, <1>3, <1>4, <1>5 DEF StageInv, StageOf, Registered

\* Every step stores what the step reached says.
LEMMA StageStep == StageInv /\ TypeOK /\ [Next]_vars => StageInv'
  <1> SUFFICES ASSUME StageInv, TypeOK, [Next]_vars
               PROVE  StageInv'
    OBVIOUS
  <1>1. ASSUME UNCHANGED <<users, identities, profiles, audit, call>>
        PROVE  StageInv'
    BY <1>1 DEF StageInv, StageOf, HasIdentity, HasUser, Registered
  <1>2. ASSUME NEW r \in Regs, NEW e \in Emails, NEW fields \in ProfileChoices,
               AcceptOTP(r, e, fields) \/ AcceptMockOTP(r, e, fields)
        PROVE  StageInv'
    <2>1. call[r] = Idle /\ UNCHANGED <<users, identities, profiles, audit>>
      BY <1>2 DEF AcceptOTP, AcceptMockOTP
    <2>2. PICK issue \in 0 .. MaxIssues, guess \in Nat : Begin(r, e, fields, issue, guess)
      BY <1>2, PendingCode, RegistrationAssumption DEF AcceptOTP, AcceptMockOTP
    <2>3. call'[r].pc = "lookup" /\ \A d \in Regs \ {r} : call'[d] = call[d]
      BY <2>2, BeginType
    <2>4. ~Registered(r)
      BY <2>1 DEF Registered, Idle
    <2>5. QED
      BY <2>1, <2>3, <2>4, ZenonT(30) DEF StageInv, StageOf, HasIdentity, HasUser, Registered,
         PastUser, PastIdentity, PastProfile
  <1>3. ASSUME NEW r \in Regs, Register(r)
        PROVE  StageInv'
    <2> SUFFICES StageOf(r)'
      BY <1>3, StageOthers DEF StageInv
    <2>1. /\ call[r] \in Call /\ call[r].pc \in Steps
          /\ call'[r].profile = call[r].profile
      BY <1>3, RegisterCall, BusyCall
         DEF Register, LookupUser, CreateUser, DrawEkaID, CreateIdentity, CreateProfile,
             EvaluateDuplicates, CreateFlags, SignToken, Fail, Steps
    <2>2. \A step \in Steps : Goto(r, step) => call'[r].pc = step
      BY <2>1, GotoType DEF Call
    <2>3. StageOf(r)
      BY DEF StageInv
    <2>4. ASSUME UNCHANGED <<users, identities, profiles, audit>>, ~Registered(r),
                 call'[r].pc \in PastUser => call[r].pc \in PastUser,
                 call'[r].pc \in PastIdentity => call[r].pc \in PastIdentity,
                 call'[r].pc \in PastProfile => call[r].pc \in PastProfile
          PROVE  StageOf(r)'
      BY <2>1, <2>3, <2>4 DEF StageOf, HasUser, HasIdentity, Registered
    <2>5. ASSUME LookupUser(r)
          PROVE  StageOf(r)'
      BY <2>2, <2>4, <2>5 DEF LookupUser, Registered, Steps,
         PastUser, PastIdentity, PastProfile
    <2>6. ASSUME CreateUser(r)
          PROVE  StageOf(r)'
      <3>1. CASE Goto(r, "failed") /\ UNCHANGED users
        BY <2>2, <2>4, <2>6, <3>1 DEF CreateUser, Registered, Steps,
           PastUser, PastIdentity, PastProfile
      <3>2. CASE users' = users \cup {<<r, call[r].profile.email>>} /\ Goto(r, "draw")
        <4>1. call'[r].pc = "draw" /\ HasUser(r)'
          <5>1. <<r, call[r].profile.email>> \in users' /\ <<r, call[r].profile.email>>[1] = r
            BY <3>2
          <5>2. QED
            BY <2>2, <3>2, <5>1 DEF Steps, HasUser
        <4>2. HasIdentity(r)' <=> HasIdentity(r)
          BY <2>6 DEF CreateUser, HasIdentity
        <4>3. ~Registered(r)
          BY <2>6 DEF CreateUser, Registered
        <4>4. QED
          BY <2>3, <2>6, <4>1, <4>2, <4>3 DEF CreateUser, StageOf, Registered,
             PastUser, PastIdentity, PastProfile
      <3>3. QED
        BY <2>6, <3>1, <3>2 DEF CreateUser
    <2>7. ASSUME NEW k \in EkaIDs, DrawEkaID(r, k)
          PROVE  StageOf(r)'
      <3>1. call'[r].pc \in {"identity", "draw", "failed"}
        BY <2>7, DrawType
      <3>2. QED
        BY <2>4, <2>7, <3>1 DEF DrawEkaID, Registered, PastUser, PastIdentity, PastProfile
    <2>8. ASSUME CreateIdentity(r)
          PROVE  StageOf(r)'
      <3>1. CASE Goto(r, "failed") /\ UNCHANGED <<identities, audit>>
        BY <2>2, <2>4, <2>8, <3>1 DEF CreateIdentity, Registered, Steps,
           PastUser, PastIdentity, PastProfile
      <3>2. CASE /\ identities' = identities \cup {<<r, call[r].eka>>}
                 /\ Goto(r, "profile")
                 /\ Record({<<"IDENTITY_CREATED", r>>})
        <4>1. call'[r].pc = "profile" /\ HasIdentity(r)'
          <5>1. <<r, call[r].eka>> \in identities' /\ <<r, call[r].eka>>[1] = r
            BY <3>2
          <5>2. QED
            BY <2>2, <3>2, <5>1 DEF Steps, HasIdentity
        <4>2. HasUser(r)'
          BY <2>3, <2>8 DEF CreateIdentity, StageOf, HasUser, PastUser
        <4>3. ~Registered(r)
          BY <2>8 DEF CreateIdentity, Registered
        <4>4. <<"USER_REGISTERED", r>> \notin audit'
          BY <2>3, <3>2, <4>3 DEF Record, StageOf
        <4>5. QED
          BY <4>1, <4>2, <4>4 DEF StageOf, PastProfile
      <3>3. QED
        BY <2>8, <3>1, <3>2 DEF CreateIdentity
    <2>9. ASSUME CreateProfile(r)
          PROVE  StageOf(r)'
      <3>1. call'[r].pc = "evaluate" /\ ~Registered(r)
        BY <2>2, <2>9 DEF CreateProfile, Steps, Registered
      <3>2. profiles'[r] = call'[r].profile
        BY <2>1, <2>9 DEF CreateProfile, TypeOK
      <3>3. HasUser(r)' /\ HasIdentity(r)'
        BY <2>3, <2>9 DEF CreateProfile, StageOf, HasUser, HasIdentity,
           PastUser, PastIdentity
      <3>4. QED
        BY <2>3, <2>9, <3>1, <3>2, <3>3 DEF CreateProfile, StageOf
    <2>10. ASSUME EvaluateDuplicates(r)
           PROVE  StageOf(r)'
      <3>1. call'[r].pc = "flag"
        BY <2>10, EvaluateType
      <3>2. QED
        BY <2>4, <2>10, <3>1 DEF EvaluateDuplicates, Registered,
           PastUser, PastIdentity, PastProfile
    <2>11. ASSUME CreateFlags(r)
           PROVE  StageOf(r)'
      <3>1. HasUser(r)' /\ HasIdentity(r)' /\ profiles'[r] = call'[r].profile
        BY <2>1, <2>3, <2>11 DEF CreateFlags, StageOf, HasUser, HasIdentity,
           PastUser, PastIdentity, PastProfile
      <3>2. <<"USER_REGISTERED", r>> \notin audit'
        BY <2>3, <2>11 DEF CreateFlags, Record, StageOf, Registered
      <3>3. QED
        BY <3>1, <3>2 DEF StageOf
    <2>12. ASSUME SignToken(r)
           PROVE  StageOf(r)'
      <3>1. call'[r].pc = "registered"
        BY <2>2, <2>12 DEF SignToken, Steps
      <3>2. HasUser(r)' /\ HasIdentity(r)' /\ profiles'[r] = call'[r].profile
        BY <2>1, <2>3, <2>12 DEF SignToken, StageOf, HasUser, HasIdentity,
           PastUser, PastIdentity, PastProfile
      <3>3. QED
        BY <3>1, <3>2 DEF StageOf, Registered
    <2>13. ASSUME Fail(r)
           PROVE  StageOf(r)'
      BY <2>2, <2>4, <2>13 DEF Fail, Registered, Steps, PastUser, PastIdentity, PastProfile
    <2>14. QED
      BY <1>3, <2>5, <2>6, <2>7, <2>8, <2>9, <2>10, <2>11, <2>12, <2>13 DEF Register
  <1>4. QED
    BY <1>1, <1>2, <1>3 DEF Next, vars, RequestOTP, ExpireOTP, DropOTP, GuessWrong

(***************************************************************************)
(* Whatever fails, a profile has an identity, an identity has a user, and  *)
(* the ledger reports only what is stored.                                 *)
(***************************************************************************)
THEOREM NothingIsOrphaned == Spec => []NoOrphans
  <1>1. StageInv => NoOrphans
    BY DEF StageInv, StageOf, NoOrphans, Registered, PastProfile
  <1>2. QED
    BY <1>1, StageInit, StageStep, TypeCorrect, PTL DEF Spec
-----------------------------------------------------------------------------
(* Duplicates                                                              *)

Evaluated(r) == call[r].pc \in {"flag", "sign", "registered"} /\ ~call[r].missed

\* Of two evaluated profiles the score calls duplicates, one found the other.
FoundInv ==
    \A r, d \in Regs :
        r # d /\ Evaluated(r) /\ Evaluated(d) /\ Duplicates(profiles[r], profiles[d])
        => d \in call[r].found \/ r \in call[d].found

FlaggedInv ==
    \A r \in Regs : call[r].pc \in {"sign", "registered"} /\ ~call[r].missed =>
        \A d \in call[r].found : <<r, d>> \in flags

\* At the beginning nothing was evaluated.
LEMMA FlagInit == Init => FoundInv /\ FlaggedInv
  BY DEF Init, FoundInv, FlaggedInv, Evaluated, Idle

\* An evaluated profile is stored, as it was entered.
LEMMA EvaluatedStored ==
    ASSUME TypeOK, StageInv, NEW d \in Regs, call[d].pc \in PastProfile
    PROVE  /\ profiles[d] = call[d].profile
           /\ profiles[d] # NoProfile
           /\ IsFace(profiles[d])
  <1>1. profiles[d] = call[d].profile
    BY DEF StageInv, StageOf
  <1>2. call[d].profile \in Profile
    BY BusyCall DEF PastProfile, Steps
  <1>3. QED
    BY <1>1, <1>2, ProfileType

\* The evaluation of r finds every duplicate that is stored by then.
LEMMA EvaluationFinds ==
    ASSUME TypeOK, StageInv, NEW r \in Regs, EvaluateDuplicates(r), ~call'[r].missed,
           NEW d \in Regs \ {r}, call[d].pc \in PastProfile,
           Duplicates(profiles[r], profiles[d]) \/ Duplicates(profiles[d], profiles[r])
    PROVE  d \in call'[r].found
  <1>1. /\ profiles[r] = call[r].profile /\ IsFace(profiles[r])
        /\ profiles[d] # NoProfile /\ IsFace(profiles[d])
    BY EvaluatedStored DEF EvaluateDuplicates, PastProfile
  <1>2. Duplicates(profiles[r], profiles[d])
    BY <1>1, DuplicatesSymmetric
  <1>3. Candidate(profiles[r], profiles[d])
    BY <1>1, <1>2, DuplicatesAreCandidates
  <1>4. call'[r].found = {c \in Candidates(r) : Duplicates(call[r].profile, profiles[c])}
    BY EvaluateType
  <1>5. QED
    BY <1>1, <1>2, <1>3, <1>4 DEF Candidates

\* Of two duplicates the one evaluated last finds the other, and then flags it.
LEMMA FlagStep == FoundInv /\ FlaggedInv /\ StageInv /\ TypeOK /\ [Next]_vars
                    => FoundInv' /\ FlaggedInv'
  <1> SUFFICES ASSUME FoundInv, FlaggedInv, StageInv, TypeOK, [Next]_vars
               PROVE  FoundInv' /\ FlaggedInv'
    OBVIOUS
  <1>1. ASSUME UNCHANGED <<profiles, flags, call>>
        PROVE  FoundInv' /\ FlaggedInv'
    BY <1>1 DEF FoundInv, FlaggedInv, Evaluated, Registered
  <1>2. ASSUME NEW r \in Regs, flags' = flags, call'[r].pc \notin {"flag", "sign", "registered"},
               \A d \in Regs \ {r} : call'[d] = call[d] /\ profiles'[d] = profiles[d]
        PROVE  FoundInv' /\ FlaggedInv'
    BY <1>2 DEF FoundInv, FlaggedInv, Evaluated, Registered
  <1>3. ASSUME NEW r \in Regs, NEW e \in Emails, NEW fields \in ProfileChoices,
               AcceptOTP(r, e, fields) \/ AcceptMockOTP(r, e, fields)
        PROVE  FoundInv' /\ FlaggedInv'
    <2>1. PICK issue \in 0 .. MaxIssues, guess \in Nat : Begin(r, e, fields, issue, guess)
      BY <1>3, PendingCode, RegistrationAssumption DEF AcceptOTP, AcceptMockOTP
    <2>2. call'[r].pc = "lookup" /\ \A d \in Regs \ {r} : call'[d] = call[d]
      BY <2>1, BeginType
    <2>3. UNCHANGED <<profiles, flags>>
      BY <1>3 DEF AcceptOTP, AcceptMockOTP
    <2>4. QED
      BY <1>2, <2>2, <2>3
  <1>4. ASSUME NEW r \in Regs, EvaluateDuplicates(r)
        PROVE  FoundInv' /\ FlaggedInv'
    <2>1. /\ UNCHANGED <<profiles, flags>> /\ call'[r].pc = "flag"
          /\ \A d \in Regs \ {r} : call'[d] = call[d]
      BY <1>4, EvaluateType DEF EvaluateDuplicates
    <2>2. FlaggedInv'
      BY <2>1 DEF FlaggedInv, Registered
    <2>3. ASSUME NEW d \in Regs \ {r}, ~call'[r].missed, Evaluated(d)',
                 Duplicates(profiles[r], profiles[d]) \/ Duplicates(profiles[d], profiles[r])
          PROVE  d \in call'[r].found
      <3>1. call[d].pc \in PastProfile
        BY <2>1, <2>3 DEF Evaluated, PastProfile
      <3>2. QED
        BY <1>4, <2>3, <3>1, EvaluationFinds
    <2>4. ASSUME NEW c \in Regs, NEW d \in Regs, c # d, Evaluated(c)', Evaluated(d)',
                 Duplicates(profiles[c], profiles[d])
          PROVE  d \in call'[c].found \/ c \in call'[d].found
      <3>1. CASE c = r
        BY <2>3, <2>4, <3>1 DEF Evaluated
      <3>2. CASE d = r
        BY <2>3, <2>4, <3>2 DEF Evaluated
      <3>3. CASE c # r /\ d # r
        BY <2>1, <2>4, <3>3 DEF FoundInv, Evaluated
      <3>4. QED
        BY <3>1, <3>2, <3>3
    <2>5. FoundInv'
      BY <2>1, <2>4 DEF FoundInv
    <2>6. QED
      BY <2>2, <2>5
  <1>5. ASSUME NEW r \in Regs, CreateFlags(r)
        PROVE  FoundInv' /\ FlaggedInv'
    <2>1. /\ call[r].pc = "flag" /\ UNCHANGED profiles
          /\ flags \subseteq flags'
          /\ call'[r].pc = "sign"
          /\ call'[r].found = call[r].found
          /\ call[r].missed => call'[r].missed
          /\ call'[r].missed \/ \A d \in call[r].found : <<r, d>> \in flags'
          /\ \A d \in Regs \ {r} : call'[d] = call[d]
      BY <1>5, FlagsType DEF CreateFlags
    <2>2. \A d \in Regs : (Evaluated(d)' => Evaluated(d)) /\ call'[d].found = call[d].found
      BY <2>1 DEF Evaluated
    <2>3. FoundInv'
      BY <2>1, <2>2 DEF FoundInv
    <2>4. FlaggedInv'
      BY <2>1 DEF FlaggedInv, Registered
    <2>5. QED
      BY <2>3, <2>4
  <1>6. ASSUME NEW r \in Regs, NEW step \in Steps \ {"flag", "sign", "registered"}, Goto(r, step),
               call[r].pc \in Steps, flags' = flags,
               \A d \in Regs \ {r} : profiles'[d] = profiles[d]
        PROVE  FoundInv' /\ FlaggedInv'
    <2>1. call[r] \in Call
      BY <1>6, BusyCall
    <2>2. /\ call'[r] = [call[r] EXCEPT !.pc = step]
          /\ \A d \in Regs \ {r} : call'[d] = call[d]
      BY <1>6, GotoType
    <2>3. call'[r].pc = step
      BY <2>1, <2>2 DEF Call
    <2>4. QED
      BY <1>2, <1>6, <2>2, <2>3
  <1>7. ASSUME NEW r \in Regs, Register(r)
        PROVE  FoundInv' /\ FlaggedInv'
    <2>1. ASSUME LookupUser(r) PROVE FoundInv' /\ FlaggedInv'
      BY <1>6, <2>1 DEF LookupUser, Steps
    <2>2. ASSUME CreateUser(r) PROVE FoundInv' /\ FlaggedInv'
      BY <1>6, <2>2 DEF CreateUser, Steps
    <2>3. ASSUME NEW k \in EkaIDs, DrawEkaID(r, k) PROVE FoundInv' /\ FlaggedInv'
      BY <1>2, <2>3, DrawType DEF DrawEkaID
    <2>4. ASSUME CreateIdentity(r) PROVE FoundInv' /\ FlaggedInv'
      BY <1>6, <2>4 DEF CreateIdentity, Steps
    <2>5. ASSUME CreateProfile(r) PROVE FoundInv' /\ FlaggedInv'
      <3>1. \A d \in Regs \ {r} : profiles'[d] = profiles[d]
        BY <2>5 DEF CreateProfile, TypeOK
      <3>2. QED
        BY <1>6, <2>5, <3>1 DEF CreateProfile, Steps
    <2>6. ASSUME Fail(r) PROVE FoundInv' /\ FlaggedInv'
      BY <1>6, <2>6 DEF Fail, Steps
    <2>7. ASSUME SignToken(r) PROVE FoundInv' /\ FlaggedInv'
      <3>1. call[r].pc = "sign" /\ UNCHANGED <<profiles, flags>> /\ Goto(r, "registered")
        BY <2>7 DEF SignToken
      <3>2. call[r] \in Call
        BY <3>1, BusyCall DEF Steps
      <3>3. /\ call'[r] = [call[r] EXCEPT !.pc = "registered"]
            /\ \A d \in Regs \ {r} : call'[d] = call[d]
        BY <3>1, GotoType DEF Steps
      <3>4. /\ call'[r].pc = "registered" /\ call'[r].found = call[r].found
            /\ call'[r].missed = call[r].missed
        BY <3>2, <3>3 DEF Call
      <3>5. \A d \in Regs : /\ call'[d].found = call[d].found
                            /\ call'[d].missed = call[d].missed
                            /\ call'[d].pc \in {"flag", "sign", "registered"} =>
                                 call[d].pc \in {"flag", "sign", "registered"}
                            /\ call'[d].pc \in {"sign", "registered"} =>
                                 call[d].pc \in {"sign", "registered"}
        BY <3>1, <3>3, <3>4
      <3>6. FoundInv'
        BY <3>1, <3>5 DEF FoundInv, Evaluated
      <3>7. FlaggedInv'
        BY <3>1, <3>5 DEF FlaggedInv
      <3>8. QED
        BY <3>6, <3>7
    <2>8. QED
      BY <1>4, <1>5, <1>7, <2>1, <2>2, <2>3, <2>4, <2>5, <2>6, <2>7 DEF Register
  <1>8. QED
    BY <1>1, <1>3, <1>7 DEF Next, vars, RequestOTP, ExpireOTP, DropOTP, GuessWrong

(***************************************************************************)
(* However registrations overlap, two registered profiles the score calls  *)
(* duplicates have a flag, unless a failure of an evaluation was ignored.  *)
(***************************************************************************)
THEOREM DuplicatesAreFlagged == Spec => []DuplicatesFlagged
  <1>1. FoundInv /\ FlaggedInv => DuplicatesFlagged
    <2> SUFFICES ASSUME FoundInv, FlaggedInv, NEW r \in Regs, NEW d \in Regs,
                        r # d, Registered(r), Registered(d),
                        ~call[r].missed, ~call[d].missed,
                        Duplicates(profiles[r], profiles[d])
                 PROVE  <<r, d>> \in flags \/ <<d, r>> \in flags
      BY DEF DuplicatesFlagged
    <2>1. d \in call[r].found \/ r \in call[d].found
      BY DEF FoundInv, Evaluated, Registered
    <2>2. QED
      BY <2>1 DEF FlaggedInv, Registered
  <1>2. QED
    BY <1>1, FlagInit, FlagStep, StageInit, StageStep, TypeCorrect, PTL DEF Spec
-----------------------------------------------------------------------------
(* Accounts and the codes behind them.                                     *)

\* A call was let through by a code sent to its email: never by the mock code.
Sent(r) == call[r].issue \in 1 .. issued[call[r].profile.email]

SentInv == \A r \in Regs : call[r] # Idle => Sent(r)

\* The account u is the one its registration asked for.
Asked(u) == call[u[1]] # Idle /\ call[u[1]].profile.email = u[2]

AskedInv == \A u \in users : Asked(u)

AccountsHaveCodes ==
    \A u \in users :
        /\ Asked(u) /\ Sent(u[1])
        /\ \A r \in Regs \ {u[1]} : call[r] # Idle => Spent(r) # Spent(u[1])

\* Outside development mode only a code that was sent lets a registration through.
LEMMA SentStep ==
    ASSUME ~DevMode
    PROVE  SentInv /\ CodeInv /\ TypeOK /\ [Next]_vars => SentInv'
  <1> SUFFICES ASSUME SentInv, CodeInv, TypeOK, [Next]_vars
               PROVE  SentInv'
    OBVIOUS
  <1>1. CASE UNCHANGED vars
    BY <1>1 DEF vars, SentInv, Sent
  <1>2. ASSUME NEW e \in Emails,
               RequestOTP(e) \/ ExpireOTP(e) \/ DropOTP(e) \/ GuessWrong(e)
        PROVE  SentInv'
    <2>1. UNCHANGED call
      BY <1>2 DEF RequestOTP, ExpireOTP, DropOTP, GuessWrong
    <2>2. \A f \in Emails : /\ issued[f] \in Nat /\ issued'[f] \in Nat
                            /\ issued[f] <= issued'[f]
      BY <1>2, RegistrationAssumption
         DEF RequestOTP, ExpireOTP, DropOTP, GuessWrong, TypeOK
    <2>3. ASSUME NEW r \in Regs, call[r] # Idle
          PROVE  call[r].issue \in 1 .. issued'[call[r].profile.email]
      <3>1. call[r].profile.email \in Emails /\ Sent(r)
        BY <2>3, BegunCall DEF SentInv
      <3>2. QED
        BY <2>2, <3>1 DEF Sent
    <2>4. QED
      BY <2>1, <2>3 DEF SentInv, Sent
  <1>3. ASSUME NEW r \in Regs, NEW e \in Emails, NEW fields \in ProfileChoices,
               AcceptOTP(r, e, fields) \/ AcceptMockOTP(r, e, fields)
        PROVE  SentInv'
    <2>1. AcceptOTP(r, e, fields)
      BY <1>3 DEF AcceptMockOTP
    <2>2. PICK issue \in 1 .. MaxIssues, guess \in Nat :
            /\ issue = otp[e].issue
            /\ Begin(r, e, fields, issue, guess)
      <3>1. otp[e] # NoCode
        BY <2>1 DEF AcceptOTP
      <3>2. otp[e].issue \in 1 .. MaxIssues /\ otp[e].attempts + 1 \in Nat
        BY <3>1, PendingCode, RegistrationAssumption
      <3>3. QED
        BY <2>1, <3>2 DEF AcceptOTP
    <2>3. UNCHANGED issued /\ issue = issued[e]
      BY <2>1, <2>2 DEF AcceptOTP, CodeInv, CodesAdvance
    <2>4. /\ call'[r].profile.email = e
          /\ call'[r].issue = issue
          /\ \A d \in Regs \ {r} : call'[d] = call[d]
      <3>1. issue \in 0 .. MaxIssues
        BY RegistrationAssumption
      <3>2. QED
        BY <2>2, <3>1, BeginType
    <2>5. issue \in 1 .. issued[e]
      BY <2>3, RegistrationAssumption
    <2>6. ASSUME NEW d \in Regs, call'[d] # Idle
          PROVE  call'[d].issue \in 1 .. issued[call'[d].profile.email]
      <3>1. CASE d = r
        BY <2>4, <2>5, <3>1
      <3>2. CASE d # r
        BY <2>4, <2>6, <3>2 DEF SentInv, Sent
      <3>3. QED
        BY <3>1, <3>2
    <2>7. QED
      BY <2>3, <2>6 DEF SentInv, Sent
  <1>4. ASSUME NEW r \in Regs, Register(r)
        PROVE  SentInv'
    <2>1. /\ UNCHANGED codes /\ call[r] # Idle
          /\ call'[r].profile = call[r].profile
          /\ call'[r].issue = call[r].issue
          /\ \A d \in Regs \ {r} : call'[d] = call[d]
      BY <1>4, RegisterCall
    <2>2. QED
      BY <2>1 DEF SentInv, Sent, codes
  <1>5. QED
    BY <1>1, <1>2, <1>3, <1>4 DEF Next

\* Only CreateUser adds an account, and a call keeps its email.
LEMMA AskedStep == AskedInv /\ TypeOK /\ [Next]_vars => AskedInv'
  <1> SUFFICES ASSUME AskedInv, TypeOK, [Next]_vars
               PROVE  AskedInv'
    OBVIOUS
  <1> DEFINE Kept(u) == call'[u[1]] # Idle /\ call'[u[1]].profile.email = u[2]
  <1>1. CASE UNCHANGED <<users, call>>
    BY <1>1 DEF AskedInv, Asked
  <1>2. ASSUME NEW r \in Regs, NEW e \in Emails, NEW fields \in ProfileChoices,
               AcceptOTP(r, e, fields) \/ AcceptMockOTP(r, e, fields)
        PROVE  AskedInv'
    <2>1. UNCHANGED users /\ call[r] = Idle
      BY <1>2 DEF AcceptOTP, AcceptMockOTP
    <2>2. \A d \in Regs \ {r} : call'[d] = call[d]
      BY <1>2 DEF AcceptOTP, AcceptMockOTP, Begin, TypeOK
    <2>3. \A u \in users : u[1] \in Regs /\ u[1] # r
      BY <2>1 DEF AskedInv, Asked, TypeOK
    <2>4. QED
      BY <2>1, <2>2, <2>3 DEF AskedInv, Asked
  <1>3. ASSUME NEW r \in Regs, Register(r)
        PROVE  AskedInv'
    <2>1. /\ call[r] # Idle /\ call'[r] # Idle
          /\ call'[r].profile = call[r].profile
          /\ \A d \in Regs \ {r} : call'[d] = call[d]
      BY <1>3, RegisterCall
    <2>2. users' \subseteq users \cup {<<r, call[r].profile.email>>}
      BY <1>3 DEF Register, LookupUser, CreateUser, DrawEkaID, CreateIdentity,
         CreateProfile, EvaluateDuplicates, CreateFlags, SignToken, Fail
    <2>3. ASSUME NEW u \in users
          PROVE  Kept(u)
      <3>1. u[1] \in Regs /\ Asked(u)
        BY DEF TypeOK, AskedInv
      <3>2. CASE u[1] = r
        BY <2>1, <3>1, <3>2 DEF Asked
      <3>3. CASE u[1] # r
        BY <2>1, <3>1, <3>3 DEF Asked
      <3>4. QED
        BY <3>2, <3>3
    <2>4. Kept(<<r, call[r].profile.email>>)
      BY <2>1
    <2>5. QED
      BY <2>2, <2>3, <2>4 DEF AskedInv, Asked
  <1>4. QED
    BY <1>1, <1>2, <1>3 DEF Next, vars, RequestOTP, ExpireOTP, DropOTP, GuessWrong

(***************************************************************************)
(* Outside development mode an account is the one a registration asked     *)
(* for, and that registration was let through by a code sent to the email  *)
(* of the account and spent by no other registration, whatever fails and   *)
(* however registrations overlap (VerifyOTP before everything else in      *)
(* Register).                                                              *)
(***************************************************************************)
THEOREM EveryAccountHasACode ==
    ASSUME ~DevMode
    PROVE  Spec => []AccountsHaveCodes
  <1>1. Init => SentInv /\ AskedInv
    BY DEF Init, SentInv, AskedInv
  <1>2. SentInv /\ AskedInv /\ CodeInv /\ TypeOK => AccountsHaveCodes
    <2> SUFFICES ASSUME SentInv, AskedInv, CodeInv, TypeOK, NEW u \in users
                 PROVE  /\ Asked(u) /\ Sent(u[1])
                        /\ \A r \in Regs \ {u[1]} :
                              call[r] # Idle => Spent(r) # Spent(u[1])
      BY DEF AccountsHaveCodes
    <2>1. u[1] \in Regs /\ Asked(u)
      BY DEF TypeOK, AskedInv
    <2>2. Sent(u[1])
      BY <2>1 DEF SentInv, Asked
    <2>3. call[u[1]].issue # 0 /\ call[u[1]] # Idle
      <3>1. \A n : 0 \notin 1 .. n
        OBVIOUS
      <3>2. QED
        BY <2>1, <2>2, <3>1 DEF Sent, Asked
    <2>4. \A r \in Regs \ {u[1]} : call[r] # Idle => Spent(u[1]) # Spent(r)
      BY <2>1, <2>3 DEF CodeInv, CodesSpentOnce
    <2>5. QED
      BY <2>1, <2>2, <2>4
  <1>3. SentInv /\ CodeInv /\ TypeOK /\ [Next]_vars => SentInv'
    BY SentStep
  <1>4. QED
    BY <1>1, <1>2, <1>3, AskedStep, CodeInit, CodeStep, TypeCorrect, PTL DEF Spec
-----------------------------------------------------------------------------
(* Registrations come to an end.                                           *)

\* The steps a call has yet to take, at most.
StepsLeft(c) ==
    CASE c.pc = "lookup"   -> MaxRetries + 7
      [] c.pc = "user"     -> MaxRetries + 6
      [] c.pc = "draw"     -> (MaxRetries - c.draws) + 5
      [] c.pc = "identity" -> 5
      [] c.pc = "profile"  -> 4
      [] c.pc = "evaluate" -> 3
      [] c.pc = "flag"     -> 2
      [] c.pc = "sign"     -> 1
      [] c.pc \in {"registered", "failed"} -> 0

\* A draw is left to a call that draws.
DrawsInv ==
    \A r \in Regs :
        /\ call[r].pc \in {"lookup", "user"} => call[r].draws = 0
        /\ call[r].pc = "draw" => call[r].draws < MaxRetries

Forward(r) ==
    call'[r] # Idle /\ (call'[r] = call[r] \/ StepsLeft(call'[r]) < StepsLeft(call[r]))

RegistrationsGoForward ==
    [][\A r \in Regs : call[r] # Idle => StepsLeft(call[r]) \in Nat /\ Forward(r)]_vars

\* At the beginning no call draws.
LEMMA DrawsInit == Init => DrawsInv
  BY DEF Init, DrawsInv, Idle

\* What a step leaves to be done, by the step: all the proofs need of StepsLeft.
LEMMA LeftAt ==
    ASSUME NEW c
    PROVE  /\ c.pc = "lookup" => StepsLeft(c) = MaxRetries + 7
           /\ c.pc = "user" => StepsLeft(c) = MaxRetries + 6
           /\ c.pc = "draw" => StepsLeft(c) = (MaxRetries - c.draws) + 5
           /\ c.pc = "identity" => StepsLeft(c) = 5
           /\ c.pc = "profile" => StepsLeft(c) = 4
           /\ c.pc = "evaluate" => StepsLeft(c) = 3
           /\ c.pc = "flag" => StepsLeft(c) = 2
           /\ c.pc = "sign" => StepsLeft(c) = 1
           /\ c.pc \in {"registered", "failed"} => StepsLeft(c) = 0
  BY DEF StepsLeft

\* A call under way has a number of steps left.
LEMMA LeftIsNat ==
    ASSUME TypeOK, DrawsInv, NEW r \in Regs, call[r] # Idle
    PROVE  StepsLeft(call[r]) \in Nat
  <1>1. call[r] \in Call
    BY DEF TypeOK
  <1>2. call[r].pc \in Steps /\ call[r].draws \in Nat
    BY <1>1 DEF Call
  <1>3. call[r].pc = "draw" => call[r].draws < MaxRetries
    BY DEF DrawsInv
  <1>4. QED
    BY <1>2, <1>3, LeftAt, RegistrationAssumption DEF Steps

\* A draw ends the loop, or is one of the MaxRetries it has.
LEMMA DrawForward ==
    ASSUME TypeOK, DrawsInv, NEW r \in Regs, NEW k \in EkaIDs, DrawEkaID(r, k)
    PROVE  /\ StepsLeft(call'[r]) < StepsLeft(call[r])
           /\ call'[r].pc \in {"identity", "draw", "failed"}
           /\ call'[r].pc = "draw" => call'[r].draws < MaxRetries
  <1>1. call[r].pc = "draw" /\ call[r] \in Call /\ call[r].draws < MaxRetries
    BY BusyCall DEF DrawEkaID, Steps, DrawsInv
  <1>2. call[r].draws \in Nat
    BY <1>1 DEF Call
  <1>3. StepsLeft(call[r]) = (MaxRetries - call[r].draws) + 5
    BY <1>1, LeftAt
  <1>4. CASE call' = [call EXCEPT ![r].pc = "identity", ![r].eka = k]
    <2>1. call'[r].pc = "identity"
      BY <1>1, <1>4 DEF TypeOK, Call
    <2>2. StepsLeft(call'[r]) = 5
      BY <2>1, LeftAt
    <2>3. QED
      BY <1>1, <1>2, <1>3, <2>1, <2>2, RegistrationAssumption
  <1>5. CASE call' = [call EXCEPT
                ![r].draws = @ + 1,
                ![r].pc = IF call[r].draws + 1 = MaxRetries THEN "failed" ELSE "draw"]
    <2> DEFINE step == IF call[r].draws + 1 = MaxRetries THEN "failed" ELSE "draw"
    <2>1. call' = [call EXCEPT ![r] = [call[r] EXCEPT !.draws = @ + 1, !.pc = step]]
      BY <1>5
    <2>2. step = IF call[r].draws + 1 = MaxRetries THEN "failed" ELSE "draw"
      OBVIOUS
    <2> HIDE DEF step
    <2>3. call'[r].pc = step /\ call'[r].draws = call[r].draws + 1
      BY <1>1, <2>1 DEF TypeOK, Call
    <2>4. CASE call[r].draws + 1 = MaxRetries
      <3>1. call'[r].pc = "failed"
        BY <2>2, <2>3, <2>4
      <3>2. StepsLeft(call'[r]) = 0
        BY <3>1, LeftAt
      <3>3. QED
        BY <1>1, <1>2, <1>3, <3>1, <3>2, RegistrationAssumption
    <2>5. CASE call[r].draws + 1 # MaxRetries
      <3>1. call'[r].pc = "draw"
        BY <2>2, <2>3, <2>5
      <3>2. StepsLeft(call'[r]) = (MaxRetries - call'[r].draws) + 5
        BY <3>1, LeftAt
      <3>3. QED
        BY <1>1, <1>2, <1>3, <2>3, <2>5, <3>1, <3>2, RegistrationAssumption
    <2>6. QED
      BY <2>4, <2>5
  <1>6. QED
    BY <1>4, <1>5 DEF DrawEkaID

\* Each step of Register leaves less to be done.
LEMMA RegisterForward ==
    ASSUME TypeOK, DrawsInv, NEW r \in Regs, Register(r)
    PROVE  /\ StepsLeft(call'[r]) < StepsLeft(call[r])
           /\ call'[r].pc \in {"lookup", "user"} => call'[r].draws = 0
           /\ call'[r].pc = "draw" => call'[r].draws < MaxRetries
  <1> USE RegistrationAssumption
  <1> DEFINE Goal ==
        /\ StepsLeft(call'[r]) < StepsLeft(call[r])
        /\ call'[r].pc \in {"lookup", "user"} => call'[r].draws = 0
        /\ call'[r].pc = "draw" => call'[r].draws < MaxRetries
  <1>1. ASSUME call[r].pc \in Steps, NEW step \in Steps, Goto(r, step)
        PROVE  call'[r].pc = step /\ call'[r].draws = call[r].draws
    <2>1. call[r] \in Call /\ call'[r] = [call[r] EXCEPT !.pc = step]
      BY <1>1, GotoType, BusyCall
    <2>2. QED
      BY <2>1 DEF Call
  <1>2. ASSUME call[r].pc \in {"user", "draw", "identity", "profile", "evaluate",
                               "sign"},
               Goto(r, "failed")
        PROVE  Goal
    <2>1. call'[r].pc = "failed"
      BY <1>1, <1>2 DEF Steps
    <2>2. StepsLeft(call'[r]) = 0
      BY <2>1, LeftAt
    <2>3. call[r].draws \in Nat
      BY <1>2, BusyCall DEF Steps, Call
    <2>4. call[r].pc = "draw" => call[r].draws < MaxRetries
      BY DEF DrawsInv
    <2>5. 0 < StepsLeft(call[r])
      BY <1>2, <2>3, <2>4, LeftAt
    <2>6. QED
      BY <2>1, <2>2, <2>5
  <1>3. ASSUME LookupUser(r) PROVE Goal
    <2>1. /\ call[r].pc = "lookup" /\ call[r].draws = 0
          /\ StepsLeft(call[r]) = MaxRetries + 7
      BY <1>3, LeftAt DEF LookupUser, DrawsInv
    <2>2. PICK step \in {"failed", "user"} : Goto(r, step)
      BY <1>3 DEF LookupUser
    <2>3. call'[r].pc = step /\ call'[r].draws = 0
      BY <1>1, <2>1, <2>2 DEF Steps
    <2>4. StepsLeft(call'[r]) \in {0, MaxRetries + 6}
      BY <2>3, LeftAt
    <2>5. QED
      BY <2>1, <2>3, <2>4
  <1>4. ASSUME CreateUser(r) PROVE Goal
    <2>1. /\ call[r].pc = "user" /\ call[r].draws = 0
          /\ StepsLeft(call[r]) = MaxRetries + 6
      BY <1>4, LeftAt DEF CreateUser, DrawsInv
    <2>2. CASE Goto(r, "failed")
      BY <1>2, <2>1, <2>2
    <2>3. CASE Goto(r, "draw")
      <3>1. call'[r].pc = "draw" /\ call'[r].draws = 0
        BY <1>1, <2>1, <2>3 DEF Steps
      <3>2. StepsLeft(call'[r]) = MaxRetries + 5
        BY <3>1, LeftAt
      <3>3. QED
        BY <2>1, <3>1, <3>2
    <2>4. QED
      BY <1>4, <2>2, <2>3 DEF CreateUser
  <1>5. ASSUME NEW k \in EkaIDs, DrawEkaID(r, k) PROVE Goal
    <2>1. /\ StepsLeft(call'[r]) < StepsLeft(call[r])
          /\ call'[r].pc \in {"identity", "draw", "failed"}
          /\ call'[r].pc = "draw" => call'[r].draws < MaxRetries
      BY <1>5, DrawForward
    <2>2. QED
      BY <2>1
  <1>6. ASSUME CreateIdentity(r) PROVE Goal
    <2>1. call[r].pc = "identity" /\ StepsLeft(call[r]) = 5
      BY <1>6, LeftAt DEF CreateIdentity
    <2>2. CASE Goto(r, "failed")
      BY <1>2, <2>1, <2>2
    <2>3. CASE Goto(r, "profile")
      BY <1>1, <2>1, <2>3, LeftAt DEF Steps
    <2>4. QED
      BY <1>6, <2>2, <2>3 DEF CreateIdentity
  <1>7. ASSUME CreateProfile(r) PROVE Goal
    BY <1>1, <1>7, LeftAt DEF CreateProfile, Steps
  <1>8. ASSUME EvaluateDuplicates(r) PROVE Goal
    <2>1. call[r].pc = "evaluate" /\ call'[r].pc = "flag"
      BY <1>8, EvaluateType DEF EvaluateDuplicates
    <2>2. QED
      BY <2>1, LeftAt
  <1>9. ASSUME CreateFlags(r) PROVE Goal
    <2>1. call[r].pc = "flag" /\ call'[r].pc = "sign"
      BY <1>9, FlagsType DEF CreateFlags
    <2>2. QED
      BY <2>1, LeftAt
  <1>10. ASSUME SignToken(r) PROVE Goal
    BY <1>1, <1>10, LeftAt DEF SignToken, Steps
  <1>11. ASSUME Fail(r) PROVE Goal
    BY <1>2, <1>11 DEF Fail
  <1>12. QED
    BY <1>3, <1>4, <1>5, <1>6, <1>7, <1>8, <1>9, <1>10, <1>11 DEF Register

\* A call that is under way, and a step.
LEMMA ForwardStep ==
    ASSUME TypeOK, DrawsInv, [Next]_vars
    PROVE  /\ DrawsInv'
           /\ \A r \in Regs : call[r] # Idle => Forward(r)
  <1>1. CASE UNCHANGED call
    BY <1>1 DEF DrawsInv, Forward
  <1>2. ASSUME NEW r \in Regs, NEW e \in Emails, NEW fields \in ProfileChoices,
               NEW issue, NEW guess, call[r] = Idle, Begin(r, e, fields, issue, guess)
        PROVE  /\ DrawsInv'
               /\ \A d \in Regs : call[d] # Idle => Forward(d)
    <2>1. call'[r].pc = "lookup" /\ call'[r].draws = 0
      BY <1>2 DEF Begin, TypeOK
    <2>2. \A d \in Regs \ {r} : call'[d] = call[d]
      BY <1>2 DEF Begin, TypeOK
    <2>3. QED
      BY <1>2, <2>1, <2>2 DEF DrawsInv, Forward
  <1>3. ASSUME NEW r \in Regs, Register(r)
        PROVE  /\ DrawsInv'
               /\ \A d \in Regs : call[d] # Idle => Forward(d)
    <2>1. /\ StepsLeft(call'[r]) < StepsLeft(call[r])
          /\ call'[r].pc \in {"lookup", "user"} => call'[r].draws = 0
          /\ call'[r].pc = "draw" => call'[r].draws < MaxRetries
      BY <1>3, RegisterForward
    <2>2. call'[r] # Idle /\ \A d \in Regs \ {r} : call'[d] = call[d]
      BY <1>3, RegisterCall
    <2>3. QED
      BY <2>1, <2>2 DEF DrawsInv, Forward
  <1>4. QED
    BY <1>1, <1>2, <1>3 DEF Next, vars, RequestOTP, ExpireOTP, DropOTP, GuessWrong,
       AcceptOTP, AcceptMockOTP

(***************************************************************************)
(* A registration ends: whatever changes a call that is under way brings it*)
(* nearer to its end, and it never begins again, so it takes MaxRetries + 7*)
(* steps at most, however often the draws of an EKA ID collide (the loop   *)
(* of CreateIdentity) and whatever other registrations do meanwhile.       *)
(***************************************************************************)
THEOREM RegistrationsEnd == Spec => RegistrationsGoForward
  <1>1. TypeOK /\ DrawsInv /\ [Next]_vars =>
            /\ DrawsInv'
            /\ [\A r \in Regs : call[r] # Idle =>
                    StepsLeft(call[r]) \in Nat /\ Forward(r)]_vars
    BY ForwardStep, LeftIsNat
  <1>2. QED
    BY <1>1, DrawsInit, TypeCorrect, PTL DEF Spec, RegistrationsGoForward
===============================================================================
