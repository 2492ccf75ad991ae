---------------------------- MODULE Registration ----------------------------
(***************************************************************************)
(* AuthService: one-time codes and registration.  Register is a sequence   *)
(* of calls without a transaction (service/auth_service.go):               *)
(*   VerifyOTP, under the lock of the code store;                          *)
(*   GetByEmail; users.Create;                                             *)
(*   CreateIdentity: at most MaxRetries draws of an EKA ID, each looked up *)
(*   before identities.Create (service/identity_service.go);               *)
(*   profiles.Create;                                                      *)
(*   EvaluateDuplicates: FindPotentialDuplicates, then a flag for every    *)
(*   candidate whose score reaches the threshold;                          *)
(*   the token is signed.                                                  *)
(* Concurrent registrations interleave at every call.  Nothing is undone   *)
(* when a later call fails.                                                *)
(*                                                                         *)
(* A registration r stands for the user, the identity and the profile it   *)
(* creates: each has a random UUID of its own.                             *)
(***************************************************************************)
EXTENDS DuplicateScore, FiniteSets

CONSTANTS
    Regs,           \* the calls of Register that get past the one-time code
    Emails,         \* the (cleaned) email addresses
    ProfileChoices, \* the profiles entered, without their email
    EkaIDs,         \* the EKA IDs GenerateEkaID may draw
    MaxRetries,     \* draws of an EKA ID before giving up (5 in the code)
    MaxAttempts,    \* guesses of a one-time code (5 in the code)
    MaxIssues,      \* bound on the codes requested per email
    DevMode,        \* TRUE: development mode, with a mock code
    CallsMayFail,   \* TRUE: a repository call, or bcrypt, or the draw of an EKA
                    \* ID, or the signature of the token, may return an error
    AuditMayFail    \* TRUE: an insert into the ledger may fail

ASSUME RegistrationAssumption ==
    /\ MaxRetries \in Nat \ {0}
    /\ MaxAttempts \in Nat \ {0}
    /\ MaxIssues \in Nat
    /\ DevMode \in BOOLEAN
    /\ CallsMayFail \in BOOLEAN
    /\ AuditMayFail \in BOOLEAN
    /\ None \notin EkaIDs \cup Emails
    /\ \A fields \in ProfileChoices : fields.face \in Faces \cup {None}

VARIABLES
    otp,         \* otpStore: the pending code of an email, or NoCode
    issued,      \* how many codes each email was sent (history)
    users,       \* users: <<registration, email>> pairs
    identities,  \* identities: <<registration, EKA ID>> pairs
    profiles,    \* profiles: the profile of each registration, or NoProfile
    flags,       \* duplicate_flags: <<registration, suspected duplicate>>
    audit,       \* audit_events: <<action, registration>> pairs
    call         \* call[r]: the state of the call, or Idle

vars == <<otp, issued, users, identities, profiles, flags, audit, call>>
codes == <<otp, issued>>

NoCode == [issue |-> 0]

Code == [issue : 1 .. MaxIssues, attempts : 0 .. MaxAttempts, expired : BOOLEAN]

NoProfile == [email |-> None]

\* The profile stored for the email e and the fields entered.
ProfileOf(e, fields) ==
    [email |-> e, name |-> fields.name, dob |-> fields.dob, phone |-> fields.phone,
     photo |-> fields.photo, face |-> fields.face]

Profile == {ProfileOf(e, fields) : e \in Emails, fields \in ProfileChoices}

(***************************************************************************)
(* A call that was given a right code: its next step, the profile entered, *)
(* the code it spent (its issue, 0 for the mock code; the guess it was),   *)
(* the draws made and the EKA ID drawn, the duplicates found, and whether  *)
(* a failure of the evaluation was ignored (history).                      *)
(***************************************************************************)
Steps == {"lookup", "user", "draw", "identity", "profile", "evaluate", "flag",
          "sign", "registered", "failed"}

Call == [pc : Steps, profile : Profile, issue : 0 .. MaxIssues, guess : Nat,
         draws : Nat, eka : EkaIDs \cup {None}, found : SUBSET Regs,
         missed : BOOLEAN]

Idle == [pc |-> "idle"]

TypeOK ==
    /\ otp \in [Emails -> Code \cup {NoCode}]
    /\ issued \in [Emails -> 0 .. MaxIssues]
    /\ users \subseteq Regs \X Emails
    /\ identities \subseteq Regs \X EkaIDs
    /\ profiles \in [Regs -> Profile \cup {NoProfile}]
    /\ flags \subseteq Regs \X Regs
    /\ audit \subseteq {"IDENTITY_CREATED", "USER_REGISTERED",
                        "POSSIBLE_DUPLICATE_DETECTED"} \X Regs
    /\ call \in [Regs -> Call \cup {Idle}]

Init ==
    /\ otp = [e \in Emails |-> NoCode]
    /\ issued = [e \in Emails |-> 0]
    /\ users = {}
    /\ identities = {}
    /\ profiles = [r \in Regs |-> NoProfile]
    /\ flags = {}
    /\ audit = {}
    /\ call = [r \in Regs |-> Idle]

\* auditSvc.Record: its error is discarded by every caller.
Record(events) ==
    \E recorded \in IF AuditMayFail THEN SUBSET events ELSE {events} :
        audit' = audit \cup recorded

EmailTaken(e) == \E u \in users : u[2] = e

EkaTaken(k) == \E i \in identities : i[2] = k

Goto(r, step) == call' = [call EXCEPT ![r].pc = step]
-----------------------------------------------------------------------------
(* One-time codes                                                          *)

\* A new code replaces the pending one, and its guesses are counted anew.
RequestOTP(e) ==
    /\ issued[e] < MaxIssues
    /\ issued' = [issued EXCEPT ![e] = @ + 1]
    /\ otp' = [otp EXCEPT ![e] = [issue |-> issued[e] + 1, attempts |-> 0,
                                  expired |-> FALSE]]
    /\ UNCHANGED <<users, identities, profiles, flags, audit, call>>

\* Five minutes pass.
ExpireOTP(e) ==
    /\ otp[e] # NoCode /\ ~otp[e].expired
    /\ otp' = [otp EXCEPT ![e].expired = TRUE]
    /\ UNCHANGED <<issued, users, identities, profiles, flags, audit, call>>

Exhausted(e) == otp[e].expired \/ otp[e].attempts >= MaxAttempts

\* VerifyOTP drops an expired or exhausted code, whatever the guess.
DropOTP(e) ==
    /\ otp[e] # NoCode /\ Exhausted(e)
    /\ otp' = [otp EXCEPT ![e] = NoCode]
    /\ UNCHANGED <<issued, users, identities, profiles, flags, audit, call>>

\* Mutation: the guesses are not limited.
GuessWrongUnlimited(e) ==
    /\ otp[e] # NoCode /\ ~otp[e].expired
    /\ otp' = [otp EXCEPT ![e].attempts = @ + 1]
    /\ UNCHANGED <<issued, users, identities, profiles, flags, audit, call>>

\* VerifyOTP counts a wrong guess.
GuessWrong(e) ==
    /\ otp[e] # NoCode /\ ~Exhausted(e)
    /\ otp' = [otp EXCEPT ![e].attempts = @ + 1]
    /\ UNCHANGED <<issued, users, identities, profiles, flags, audit, call>>

\* Register goes on with a right code.
Begin(r, e, fields, issue, guess) ==
    call' = [call EXCEPT ![r] =
               [pc |-> "lookup", profile |-> ProfileOf(e, fields), issue |-> issue,
                guess |-> guess, draws |-> 0, eka |-> None, found |-> {}, missed |-> FALSE]]

\* Mutation: the code is not consumed.
AcceptOTPKept(r, e, fields) ==
    /\ call[r] = Idle
    /\ otp[e] # NoCode /\ ~Exhausted(e)
    /\ Begin(r, e, fields, otp[e].issue, otp[e].attempts + 1)
    /\ UNCHANGED <<codes, users, identities, profiles, flags, audit>>

\* VerifyOTP consumes a code that was guessed.
AcceptOTP(r, e, fields) ==
    /\ call[r] = Idle
    /\ otp[e] # NoCode /\ ~Exhausted(e)
    /\ otp' = [otp EXCEPT ![e] = NoCode]
    /\ Begin(r, e, fields, otp[e].issue, otp[e].attempts + 1)
    /\ UNCHANGED <<issued, users, identities, profiles, flags, audit>>

\* In development the mock code is right for an email without a pending code.
AcceptMockOTP(r, e, fields) ==
    /\ DevMode
    /\ call[r] = Idle
    /\ otp[e] = NoCode
    /\ Begin(r, e, fields, 0, 1)
    /\ UNCHANGED <<codes, users, identities, profiles, flags, audit>>

-----------------------------------------------------------------------------
(* Register                                                                *)

\* GetByEmail: an error counts as "no such user".
LookupUser(r) ==
    /\ call[r].pc = "lookup"
    /\ \/ EmailTaken(call[r].profile.email) /\ Goto(r, "failed")
       \/ /\ ~EmailTaken(call[r].profile.email) \/ CallsMayFail
          /\ Goto(r, "user")
    /\ UNCHANGED <<codes, users, identities, profiles, flags, audit>>

\* Mutation: the earlier lookup is trusted.
CreateUserUnchecked(r) ==
    /\ call[r].pc = "user"
    /\ users' = users \cup {<<r, call[r].profile.email>>}
    /\ Goto(r, "draw")
    /\ UNCHANGED <<codes, identities, profiles, flags, audit>>

\* Mutation: the error of users.Create is ignored.
CreateUserIgnored(r) ==
    /\ call[r].pc = "user"
    /\ users' = IF EmailTaken(call[r].profile.email) THEN users
                ELSE users \cup {<<r, call[r].profile.email>>}
    /\ Goto(r, "draw")
    /\ UNCHANGED <<codes, identities, profiles, flags, audit>>

\* users.Create enforces one user per email.
CreateUser(r) ==
    /\ call[r].pc = "user"
    /\ IF EmailTaken(call[r].profile.email)
         THEN Goto(r, "failed") /\ UNCHANGED users
         ELSE /\ users' = users \cup {<<r, call[r].profile.email>>}
              /\ Goto(r, "draw")
    /\ UNCHANGED <<codes, identities, profiles, flags, audit>>

\* One turn of CreateIdentity's loop: an EKA ID is drawn and looked up; an
\* error of the lookup counts as "free".
DrawEkaID(r, k) ==
    /\ call[r].pc = "draw"
    /\ \/ /\ ~EkaTaken(k) \/ CallsMayFail
          /\ call' = [call EXCEPT ![r].pc = "identity", ![r].eka = k]
       \/ /\ EkaTaken(k)
          /\ call' = [call EXCEPT
                ![r].draws = @ + 1,
                ![r].pc = IF call[r].draws + 1 = MaxRetries THEN "failed" ELSE "draw"]
    /\ UNCHANGED <<codes, users, identities, profiles, flags, audit>>

\* Mutation: the earlier lookup is trusted.
CreateIdentityUnchecked(r) ==
    /\ call[r].pc = "identity"
    /\ identities' = identities \cup {<<r, call[r].eka>>}
    /\ Goto(r, "profile")
    /\ Record({<<"IDENTITY_CREATED", r>>})
    /\ UNCHANGED <<codes, users, profiles, flags>>

\* identities.Create enforces one identity per EKA ID.
CreateIdentity(r) ==
    /\ call[r].pc = "identity"
    /\ IF EkaTaken(call[r].eka)
         THEN Goto(r, "failed") /\ UNCHANGED <<identities, audit>>
         ELSE /\ identities' = identities \cup {<<r, call[r].eka>>}
              /\ Goto(r, "profile")
              /\ Record({<<"IDENTITY_CREATED", r>>})
    /\ UNCHANGED <<codes, users, profiles, flags>>

CreateProfile(r) ==
    /\ call[r].pc = "profile"
    /\ profiles' = [profiles EXCEPT ![r] = call[r].profile]
    /\ Goto(r, "evaluate")
    /\ UNCHANGED <<codes, users, identities, flags, audit>>

\* The stored profiles selected for the one entered, itself left out.
Candidates(r) ==
    {d \in Regs \ {r} : profiles[d] # NoProfile /\ Candidate(call[r].profile, profiles[d])}

\* FindPotentialDuplicates and the scores; an error ends the evaluation.
EvaluateDuplicates(r) ==
    /\ call[r].pc = "evaluate"
    /\ \/ call' = [call EXCEPT ![r].pc = "flag",
            ![r].found = {d \in Candidates(r) : Duplicates(call[r].profile, profiles[d])}]
       \/ CallsMayFail /\ call' = [call EXCEPT ![r].pc = "flag", ![r].missed = TRUE]
    /\ UNCHANGED <<codes, users, identities, profiles, flags, audit>>

\* A flag for every duplicate found, a failed insert being ignored.
CreateFlags(r) ==
    /\ call[r].pc = "flag"
    /\ \E stored \in IF CallsMayFail THEN SUBSET call[r].found ELSE {call[r].found} :
         /\ flags' = flags \cup {<<r, d>> : d \in stored}
         /\ call' = [call EXCEPT ![r].pc = "sign",
                                ![r].missed = @ \/ stored # call[r].found]
    /\ Record(IF call[r].found = {} THEN {} ELSE {<<"POSSIBLE_DUPLICATE_DETECTED", r>>})
    /\ UNCHANGED <<codes, users, identities, profiles>>

\* The token is signed and the registration audited.
SignToken(r) ==
    /\ call[r].pc = "sign"
    /\ Goto(r, "registered")
    /\ Record({<<"USER_REGISTERED", r>>})
    /\ UNCHANGED <<codes, users, identities, profiles, flags>>

\* A call whose error is returned fails, having taken effect or not; when the
\* signature fails, the account is complete and its owner is not told.
Fail(r) ==
    /\ CallsMayFail
    /\ call[r].pc \in {"user", "draw", "identity", "profile", "evaluate", "sign"}
    /\ Goto(r, "failed")
    /\ UNCHANGED <<codes, users, identities, profiles, flags, audit>>

Register(r) ==
    \/ LookupUser(r)
    \/ CreateUser(r)
    \/ \E k \in EkaIDs : DrawEkaID(r, k)
    \/ CreateIdentity(r)
    \/ CreateProfile(r)
    \/ EvaluateDuplicates(r)
    \/ CreateFlags(r)
    \/ SignToken(r)
    \/ Fail(r)

Next ==
    \/ \E e \in Emails : RequestOTP(e) \/ ExpireOTP(e) \/ DropOTP(e) \/ GuessWrong(e)
    \/ \E r \in Regs, e \in Emails, fields \in ProfileChoices :
         AcceptOTP(r, e, fields) \/ AcceptMockOTP(r, e, fields)
    \/ \E r \in Regs : Register(r)

Spec == Init /\ [][Next]_vars
-----------------------------------------------------------------------------
(* Properties                                                              *)

\* A registration is over when no more step of it will be taken.
Registered(r) == call[r].pc = "registered"

(***************************************************************************)
(* No two accounts share an email, though two registrations may both find  *)
(* it free; no two identities share an EKA ID, though two draws may both   *)
(* find it free.                                                           *)
(***************************************************************************)
AccountsUnique == \A u, v \in users : u[2] = v[2] => u = v

EkaIDsUnique == \A i, j \in identities : i[2] = j[2] => i = j

(***************************************************************************)
(* Unless a failure of an evaluation was ignored, two registered profiles  *)
(* that the score calls duplicates have a flag between them, however the   *)
(* two registrations overlapped: each profile is stored before it is       *)
(* evaluated, so at least one of the two evaluations sees the other        *)
(* profile, and FindPotentialDuplicates selects whatever the score flags.  *)
(***************************************************************************)
DuplicatesFlagged ==
    \A r, d \in Regs :
        /\ r # d /\ Registered(r) /\ Registered(d)
        /\ ~call[r].missed /\ ~call[d].missed
        /\ Duplicates(profiles[r], profiles[d])
        => <<r, d>> \in flags \/ <<d, r>> \in flags

(***************************************************************************)
(* What docs/ARCHITECTURE.md (2.4) says of the flags: without evidence from *)
(* the faces, a pair is flagged only if the documented confidence, where   *)
(* the legal name and the date of birth count together, exceeds 70%.       *)
(***************************************************************************)
FlaggedAsDocumented ==
    \A f \in flags :
        BioScore(profiles[f[1]], profiles[f[2]]) = 0
        => DocumentedScore(profiles[f[1]], profiles[f[2]]) > 70

(***************************************************************************)
(* A one-time code is spent by at most one registration, within the        *)
(* guesses allowed.                                                        *)
(***************************************************************************)
Spent(r) == <<call[r].profile.email, call[r].issue>>

CodesSpentOnce ==
    \A r \in Regs : call[r] # Idle =>
        /\ call[r].guess <= MaxAttempts
        /\ \A d \in Regs \ {r} :
             call[d] # Idle /\ call[r].issue # 0 => Spent(r) # Spent(d)

(***************************************************************************)
(* What is stored hangs together, even after a failed registration: a      *)
(* profile has an identity, an identity has a user, a registration that    *)
(* succeeded has stored all three, and the ledger reports no identity and  *)
(* no user that is not stored.                                             *)
(***************************************************************************)
HasUser(r) == \E u \in users : u[1] = r

HasIdentity(r) == \E i \in identities : i[1] = r

NoOrphans ==
    \A r \in Regs :
        /\ HasIdentity(r) => HasUser(r)
        /\ profiles[r] # NoProfile => HasIdentity(r)
        /\ Registered(r) => profiles[r] = call[r].profile
        /\ <<"IDENTITY_CREATED", r>> \in audit => HasIdentity(r)
        /\ <<"USER_REGISTERED", r>> \in audit => Registered(r)
=============================================================================
