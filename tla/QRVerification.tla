--------------------------- MODULE QRVerification ---------------------------
(***************************************************************************)
(* QRService: the identity owner generates a short-lived QR token, any     *)
(* number of scanners present tokens concurrently, administrators change   *)
(* the owner's status and time passes.                                     *)
(*                                                                         *)
(* VerifyToken (service/qr_service.go) is a sequence of repository calls   *)
(* without a lock or a transaction, so it is split at every call:          *)
(*   GetToken; expiry test; used test; MarkTokenUsed; GetByID and the      *)
(*   status test; GetByIdentityID, the claims, the audit record.           *)
(* The two repositories differ in what GetToken returns: the memory store  *)
(* returns the live record (SharedRecords), PostgreSQL a copy of the row.  *)
(* PostgreSQL statements may also fail (StoreMayFail).                     *)
(***************************************************************************)
EXTENDS Integers, FiniteSets

CONSTANTS
    Scanners,       \* the concurrent callers of POST /qr/verify
    Tokens,         \* the random tokens that may be generated
    Identities,     \* the identities that own tokens
    ScopeChoices,   \* the sets of scopes an owner may ask for
    Durations,      \* the lifetimes an owner may ask for
    MaxTime,        \* bound on the clock
    MaxAnswers,     \* bound: no scan begins once so many answers differ
    SharedRecords,  \* TRUE: memory store; FALSE: PostgreSQL
    StoreMayFail,   \* TRUE: a repository call may return an error
    AuditMayFail,   \* TRUE: so may the insert of an audit event
    NoToken         \* the value of tokens[t] before t is generated

ASSUME QRAssumption ==
    /\ Durations \subseteq Nat \ {0}
    /\ MaxTime \in Nat
    /\ MaxAnswers \in Nat
    /\ SharedRecords \in BOOLEAN
    /\ StoreMayFail \in BOOLEAN
    /\ AuditMayFail \in BOOLEAN

Statuses == {"ACTIVE", "SUSPENDED", "REVOKED", "DECEASED"}

\* The claims one allowed scope adds to the answer; an unknown scope adds none.
ClaimsOf(scope) ==
    CASE scope = "identity_valid"  -> {"identity_valid"}
      [] scope = "legal_name"      -> {"legal_name"}
      [] scope \in {"dob", "age"}  -> {"date_of_birth"}
      [] scope = "photo"           -> {"profile_photo_url"}
      [] scope = "city_state"      -> {"city", "state"}
      [] OTHER                     -> {}

ClaimNames == UNION {ClaimsOf(sc) : sc \in
    {"identity_valid", "legal_name", "dob", "photo", "city_state"}}

\* Everything but identity_valid is read from the profile.
Disclose(scopes, hasProfile) ==
    (UNION {ClaimsOf(sc) : sc \in scopes})
        \cap (IF hasProfile THEN ClaimNames ELSE {"identity_valid"})

\* An empty scope list is replaced by the default one.
GrantedScopes(asked) ==
    IF asked = {} THEN {"identity_valid", "legal_name"} ELSE asked

TokenRecord == [identity : Identities, scopes : {GrantedScopes(a) : a \in ScopeChoices},
                isUsed : BOOLEAN, expiresAt : Nat]

ASSUME NoTokenAssumption == NoToken \notin TokenRecord

AuditEvent == [action : {"QR_CREATED", "QR_VERIFIED", "QR_VERIFICATION_FAILED",
                         "IDENTITY_STATUS_UPDATED"},
               target : Tokens \cup Identities]

VARIABLES
    tokens,      \* qr_tokens
    status,      \* identities.status
    now,         \* the clock
    audit,       \* audit_events, as a set: how often one is repeated is left out
    scan,        \* scan[s]: the VerifyToken call of scanner s, or Idle
    disclosures  \* the VERIFIED answers given (history)

vars == <<tokens, status, now, audit, scan, disclosures>>
stores == <<tokens, status, now>>

(***************************************************************************)
(* A call under way: its next step, the token presented, is_used in the    *)
(* row GetToken returned; and four history fields the properties read:     *)
(* the time of GetToken, whether a scan had been honoured before that      *)
(* burned the token, whether the owner was ACTIVE at some instant of the   *)
(* call so far, and whether the call has burned the token itself.          *)
(***************************************************************************)
Steps == {"expiry", "used", "mark", "identity", "disclose"}

Scan == [pc : Steps, token : Tokens, usedSeen : BOOLEAN,
         began : Nat, replay : BOOLEAN, active : BOOLEAN, burned : BOOLEAN]

Idle == [pc |-> "idle"]

Disclosure == [by : Scanners, token : Tokens, claims : SUBSET ClaimNames,
               began : Nat, replay : BOOLEAN, active : BOOLEAN, burned : BOOLEAN]

TypeOK ==
    /\ tokens \in [Tokens -> TokenRecord \cup {NoToken}]
    /\ status \in [Identities -> Statuses]
    /\ now \in Nat
    /\ audit \subseteq AuditEvent
    /\ scan \in [Scanners -> Scan \cup {Idle}]
    /\ disclosures \subseteq Disclosure
    /\ \A s \in Scanners : scan[s] # Idle => tokens[scan[s].token] # NoToken

Init ==
    /\ tokens = [t \in Tokens |-> NoToken]
    /\ status = [i \in Identities |-> "ACTIVE"]
    /\ now = 0
    /\ audit = {}
    /\ scan = [s \in Scanners |-> Idle]
    /\ disclosures = {}

\* auditSvc.Record: its error is discarded by every caller, so that an answer
\* may leave no event.
Record(action, target) ==
    \E stored \in {TRUE, ~AuditMayFail} :
        audit' = IF stored THEN audit \cup {[action |-> action, target |-> target]}
                 ELSE audit

\* The call of s goes on with its next step.
Goto(s, step) == scan' = [scan EXCEPT ![s].pc = step]

\* The call of s returns.
Return(s) == scan' = [scan EXCEPT ![s] = Idle]

Presented(s) == tokens[scan[s].token]

Owner(s) == Presented(s).identity
-----------------------------------------------------------------------------
(* GenerateVerificationToken: the owner's status is not consulted.         *)

\* Mutation: the lifetime is subtracted.
GenerateTokenInPast(t, i, asked, d) ==
    /\ tokens[t] = NoToken
    /\ tokens' = [tokens EXCEPT ![t] =
                    [identity |-> i, scopes |-> GrantedScopes(asked),
                     isUsed |-> FALSE, expiresAt |-> now - d]]
    /\ Record("QR_CREATED", t)
    /\ UNCHANGED <<status, now, scan, disclosures>>

GenerateToken(t, i, asked, d) ==
    /\ tokens[t] = NoToken
    /\ tokens' = [tokens EXCEPT ![t] =
                    [identity |-> i, scopes |-> GrantedScopes(asked),
                     isUsed |-> FALSE, expiresAt |-> now + d]]
    /\ Record("QR_CREATED", t)
    /\ UNCHANGED <<status, now, scan, disclosures>>

-----------------------------------------------------------------------------
(* VerifyToken                                                             *)

\* GetToken finds the row.
GetToken(s, t) ==
    /\ scan[s] = Idle
    /\ tokens[t] # NoToken
    /\ Cardinality(disclosures) < MaxAnswers
    /\ scan' = [scan EXCEPT ![s] =
                  [pc |-> "expiry", token |-> t, usedSeen |-> tokens[t].isUsed,
                   began |-> now,
                   replay |-> \E d \in disclosures : d.token = t /\ d.burned,
                   active |-> status[tokens[t].identity] = "ACTIVE", burned |-> FALSE]]
    /\ UNCHANGED <<stores, audit, disclosures>>

\* GetToken finds nothing, or fails: the call ends at once.
TokenNotFound(s, t) ==
    /\ scan[s] = Idle
    /\ tokens[t] = NoToken \/ StoreMayFail
    /\ Record("QR_VERIFICATION_FAILED", t)
    /\ UNCHANGED <<stores, scan, disclosures>>

\* Mutation: the expiry test was forgotten.
CheckExpirySkipped(s) ==
    /\ scan[s].pc = "expiry"
    /\ Goto(s, "used")
    /\ UNCHANGED <<stores, audit, disclosures>>

CheckExpiry(s) ==
    /\ scan[s].pc = "expiry"
    /\ IF now > Presented(s).expiresAt
         THEN Return(s) /\ Record("QR_VERIFICATION_FAILED", scan[s].token)
         ELSE Goto(s, "used") /\ UNCHANGED audit
    /\ UNCHANGED <<stores, disclosures>>

\* The memory store's record is shared, so its is_used is read now.
SeesUsed(s) == IF SharedRecords THEN Presented(s).isUsed ELSE scan[s].usedSeen

\* Mutation: the used test was forgotten.
CheckUsedSkipped(s) ==
    /\ scan[s].pc = "used"
    /\ Goto(s, "mark")
    /\ UNCHANGED <<stores, audit, disclosures>>

CheckUsed(s) ==
    /\ scan[s].pc = "used"
    /\ IF SeesUsed(s)
         THEN Return(s) /\ Record("QR_VERIFICATION_FAILED", scan[s].token)
         ELSE Goto(s, "mark") /\ UNCHANGED audit
    /\ UNCHANGED <<stores, disclosures>>

\* The call goes on, having burned its token or not.
BurnedIs(s, burned) == scan' = [scan EXCEPT ![s].pc = "identity", ![s].burned = burned]

\* Mutation: is_used is set on the record in hand, which is a copy.
MarkTokenUsedOnCopy(s) ==
    /\ scan[s].pc = "mark"
    /\ tokens' = IF SharedRecords THEN [tokens EXCEPT ![scan[s].token].isUsed = TRUE] ELSE tokens
    /\ BurnedIs(s, TRUE)
    /\ UNCHANGED <<status, now, audit, disclosures>>

\* An unconditional update whose error is discarded.
MarkTokenUsed(s) ==
    /\ scan[s].pc = "mark"
    /\ \/ /\ tokens' = [tokens EXCEPT ![scan[s].token].isUsed = TRUE]
          /\ BurnedIs(s, TRUE)
       \/ /\ StoreMayFail
          /\ tokens' = tokens
          /\ BurnedIs(s, FALSE)
    /\ UNCHANGED <<status, now, audit, disclosures>>

\* GetByID may fail; otherwise the status read decides.
CheckIdentity(s) ==
    /\ scan[s].pc = "identity"
    /\ \/ StoreMayFail /\ Return(s) /\ UNCHANGED audit
       \/ /\ status[Owner(s)] # "ACTIVE"
          /\ Return(s) /\ Record("QR_VERIFICATION_FAILED", Owner(s))
       \/ /\ status[Owner(s)] = "ACTIVE"
          /\ Goto(s, "disclose") /\ UNCHANGED audit
    /\ UNCHANGED <<stores, disclosures>>

\* The profile may be missing: registration may have failed before storing it.
Answer(s) ==
    /\ scan[s].pc = "disclose"
    /\ \E hasProfile \in BOOLEAN :
         disclosures' = disclosures \cup
            {[by |-> s, token |-> scan[s].token,
              claims |-> Disclose(Presented(s).scopes, hasProfile),
              began |-> scan[s].began, replay |-> scan[s].replay,
              active |-> scan[s].active, burned |-> scan[s].burned]}
    /\ Record("QR_VERIFIED", Owner(s))
    /\ Return(s)
    /\ UNCHANGED stores

-----------------------------------------------------------------------------
(* The environment                                                         *)

\* IdentityService.UpdateStatus by an administrator: from any status to any.
UpdateStatus(i, st) ==
    /\ status' = [status EXCEPT ![i] = st]
    /\ scan' = [s \in Scanners |->
                  IF scan[s] # Idle /\ Owner(s) = i
                    THEN [scan[s] EXCEPT !.active = @ \/ st = "ACTIVE"]
                    ELSE scan[s]]
    /\ Record("IDENTITY_STATUS_UPDATED", i)
    /\ UNCHANGED <<tokens, now, disclosures>>

Tick ==
    /\ now < MaxTime
    /\ now' = now + 1
    /\ UNCHANGED <<tokens, status, audit, scan, disclosures>>

VerifyToken(s) ==
    \/ \E t \in Tokens : GetToken(s, t) \/ TokenNotFound(s, t)
    \/ CheckExpiry(s)
    \/ CheckUsed(s)
    \/ MarkTokenUsed(s)
    \/ CheckIdentity(s)
    \/ Answer(s)

Next ==
    \/ \E t \in Tokens, i \in Identities, asked \in ScopeChoices, d \in Durations :
         GenerateToken(t, i, asked, d)
    \/ \E s \in Scanners : VerifyToken(s)
    \/ \E i \in Identities, st \in Statuses : UpdateStatus(i, st)
    \/ Tick

Spec == Init /\ [][Next]_vars
-----------------------------------------------------------------------------
(* Properties                                                              *)

(***************************************************************************)
(* A VERIFIED answer is justified: the owner was ACTIVE at an instant of   *)
(* the call, the call began before the token expired, and every claim in   *)
(* it comes from a scope the owner granted.  The status is read after the  *)
(* token was looked up and burned, so a stale read would break it.         *)
(***************************************************************************)
DisclosureJustified ==
    \A d \in disclosures :
        /\ d.active
        /\ d.began <= tokens[d.token].expiresAt
        /\ d.claims \subseteq UNION {ClaimsOf(sc) : sc \in tokens[d.token].scopes}

(***************************************************************************)
(* A scan that begins after an earlier scan of the token was honoured and  *)
(* its MarkTokenUsed did not fail is never honoured, whatever else fails   *)
(* (service_test.go replays a token this way).  Scans that overlap may     *)
(* both be honoured, and so may a scan that follows a discarded error of   *)
(* MarkTokenUsed.                                                          *)
(***************************************************************************)
NoSequentialReplay == \A d \in disclosures : ~d.replay

\* No two scans of one token are ever honoured, overlapping or not.
AtMostOneDisclosure ==
    \A d, e \in disclosures : d.token = e.token => d.by = e.by

(***************************************************************************)
(* VerifyToken implements the contract of a single-use capability, for the *)
(* scans that burn their token: it is burned before such a scan is         *)
(* answered, and only scans that began before it was burned are answered.  *)
(* A scan whose MarkTokenUsed failed presents the token without burning    *)
(* it; its answer is no grant of the contract.                             *)
(***************************************************************************)
Burned == {t \in Tokens : tokens[t] # NoToken /\ tokens[t].isUsed}

Presentation(call) ==
    IF call = Idle THEN [busy |-> FALSE]
    ELSE [busy |-> TRUE, token |-> call.token, eligible |-> ~call.usedSeen]

Presentations == [s \in Scanners |-> Presentation(scan[s])]

Granted == {<<d.by, d.token>> : d \in {e \in disclosures : e.burned}}

Contract == INSTANCE SingleUseCapability WITH
    burned <- Burned, scan <- Presentations, granted <- Granted

ImplementsContract == Contract!Spec
-----------------------------------------------------------------------------
(* Inductive invariants                                                    *)

\* What a call under way knows of the owner and of the expiry.
ScanInv ==
    \A s \in Scanners : scan[s] # Idle =>
        /\ scan[s].began <= now
        /\ status[Owner(s)] = "ACTIVE" => scan[s].active
        /\ scan[s].pc # "expiry" => scan[s].began <= Presented(s).expiresAt
        /\ scan[s].pc = "disclose" => scan[s].active

DisclosedTokensExist == \A d \in disclosures : tokens[d.token] # NoToken

JustifiedInv == ScanInv /\ DisclosedTokensExist /\ DisclosureJustified

\* What a call under way knows of is_used.
UsedInv ==
    \A s \in Scanners : scan[s] # Idle =>
        /\ scan[s].replay => scan[s].usedSeen
        /\ scan[s].usedSeen => Presented(s).isUsed
        /\ scan[s].pc \in {"mark", "identity", "disclose"} => ~scan[s].usedSeen
        /\ scan[s].burned => Presented(s).isUsed
        /\ scan[s].pc \in {"identity", "disclose"} => scan[s].burned \/ StoreMayFail

DisclosedTokensBurned ==
    \A d \in disclosures :
        /\ tokens[d.token] # NoToken
        /\ d.burned => tokens[d.token].isUsed
        /\ d.burned \/ StoreMayFail

BurnInv == UsedInv /\ DisclosedTokensBurned /\ NoSequentialReplay
=============================================================================
