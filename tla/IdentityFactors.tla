--------------------------- MODULE IdentityFactors ---------------------------
(***************************************************************************)
(* Second factors of the principal of IdentitySessions: enrollment, the    *)
(* e-mailed challenges, recovery codes, recent authentication and the      *)
(* owner's emergency enrollment (src/@bke/identity).                       *)
(*                                                                         *)
(* A code given to a call is the challenge's own e-mailed code, a recovery *)
(* code of the set stored at that moment, or a wrong one.  One recovery    *)
(* code per set is enough for the question whether a code works twice.     *)
(***************************************************************************)
EXTENDS IdentitySessions

CONSTANTS
    Challenges,     \* bound: MfaChallenge rows
    MaxAttempts,    \* 5 in the code
    MaxSets,        \* bound: sets of recovery codes issued
    Serialised      \* the host starts no enrollment while one is being decided

ASSUME FactorsAssumption ==
    /\ {MaxAttempts, MaxSets} \subseteq Nat \ {0}
    /\ Serialised \in BOOLEAN

VARIABLES
    challenge,      \* MfaChallenge rows; `by` and `uses` are history
    recovery,       \* the current set of recovery codes and its one code
    authorization   \* the owner's EmergencyMfaEnrollmentAuthorization

factorVars == <<challenge, recovery, authorization>>
vars == <<composed, user, password, mfa, session, link, call, challenge, recovery, authorization>>

NoChallenge ==
    [state |-> "none", purpose |-> "LOGIN", primary |-> "PASSWORD", session |-> Null,
     attempts |-> 0, raced |-> FALSE, by |-> Null, uses |-> 0]

FactorInit ==
    /\ Init
    /\ challenge = [k \in Challenges |-> NoChallenge]
    /\ recovery = [set |-> 1, unused |-> Enabled, uses |-> 0]
    /\ authorization \in IF "emergency" \in composed THEN {"open"} ELSE {"none"}

-----------------------------------------------------------------------------
(* Rows.                                                                     *)

Unconsumed(k) == challenge[k].state \in {"pending", "lapsed"}
Deleted(chosen) ==
    [k \in Challenges |-> IF k \in chosen THEN [NoChallenge EXCEPT !.state = "deleted"] ELSE challenge[k]]
AllDeleted == Deleted({k \in Challenges : challenge[k].state # "none"})

\* One pending challenge of a purpose (and, for recent authentication, of a
\* session) replaces the unconsumed ones.
Replaced(purpose, primary, s, raced) ==
    LET replaced == {j \in Challenges : /\ Unconsumed(j) /\ challenge[j].purpose = purpose
                                        /\ purpose = "RECENT_AUTH" => challenge[j].session = s}
    IN
    \E k \in Challenges :
      /\ challenge[k].state = "none"
      /\ challenge' = [Deleted(replaced) EXCEPT
                         ![k] = [NoChallenge EXCEPT !.state = "pending", !.purpose = purpose,
                                    !.primary = primary, !.session = s, !.raced = raced]]

NewSet ==
    /\ recovery.set < MaxSets
    /\ recovery' = [set |-> recovery.set + 1, unused |-> TRUE, uses |-> 0]

-----------------------------------------------------------------------------
(* Presenting a challenge with a code, common to the three purposes.         *)

AttemptsLeft(k) == challenge[k].attempts < MaxAttempts

Presentable(k, purpose) ==
    challenge[k].state = "pending" /\ challenge[k].purpose = purpose /\ AttemptsLeft(k)

\* findUnusedRecoveryCode finds the code; its row is named by the set.
Accepts(code) == code = "email" \/ (code = "recovery" /\ recovery.unused)

Presents(c, k, code, facts, pc) ==
    Proceeds(c, IF Accepts(code) THEN pc ELSE "wrong",
             [facts EXCEPT !.row = k, !.code = IF code = "recovery" THEN recovery.set ELSE 0])

\* incrementChallengeAttempt: an unconsumed row counts up, to the limit that the
\* CHECK of the table sets.
CountAttempt(c) ==
    LET k == call[c].row IN
    /\ call[c].pc = "wrong"
    /\ challenge' = IF Unconsumed(k) /\ AttemptsLeft(k)
                    THEN [challenge EXCEPT ![k].attempts = @ + 1] ELSE challenge
    /\ Ends(c)
    /\ UNCHANGED <<composed, user, password, mfa, session, link, recovery, authorization>>

\* Mutant: the limit is not asked again.
UnconsumedOnly(k) == Unconsumed(k)

\* The conditional updates of the commit: the challenge, then the recovery code.
Consumable(k) == Unconsumed(k) /\ AttemptsLeft(k)
\* Mutant: the recovery code is not asked again.
CodeWasFound(code) == code <= recovery.set

CodeStands(code) == code = 0 \/ (code = recovery.set /\ recovery.unused)

Consumed(k, by) ==
    challenge' = [challenge EXCEPT ![k].state = "used", ![k].by = by, ![k].uses = @ + 1]
Spent(code) ==
    IF code = 0 THEN recovery
    ELSE [recovery EXCEPT !.unused = FALSE, !.uses = @ + 1]

-----------------------------------------------------------------------------
(* Login with a second factor.                                               *)

\* The transaction of replacePendingLoginChallenge reads the method without a lock.
RequireFactor(c) ==
    /\ call[c].pc = "challenge"
    /\ IF Enabled THEN Proceeds(c, "send", call[c]) ELSE Ends(c)
    /\ UNCHANGED <<composed, user, password, mfa, session, link, factorVars>>

SendLoginChallenge(c) ==
    /\ call[c].pc = "send"
    /\ Replaced("LOGIN", call[c].primary, Null, ~Enabled)
    /\ Ends(c)
    /\ UNCHANGED <<composed, user, password, mfa, session, link, recovery, authorization>>

Reissue(c, k) ==
    /\ Starts(c, "login")
    /\ Presentable(k, "LOGIN")
    /\ Proceeds(c, "challenge", [IdleCall EXCEPT !.primary = challenge[k].primary])
    /\ UNCHANGED <<composed, user, password, mfa, session, link, factorVars>>

StartVerify(c, k, code) ==
    /\ Starts(c, "login")
    /\ Presentable(k, "LOGIN")
    /\ Presents(c, k, code, [IdleCall EXCEPT !.primary = challenge[k].primary], "verify")
    /\ UNCHANGED <<composed, user, password, mfa, session, link, factorVars>>

\* consumeChallenge; the host then issues the session of a verified login.
Verify(c) ==
    LET k == call[c].row IN
    /\ call[c].pc = "verify"
    /\ IF Consumable(k) /\ CodeStands(call[c].code)
       THEN /\ Consumed(k, Null)
            /\ recovery' = Spent(call[c].code)
            /\ Proceeds(c, "issue", [call[c] EXCEPT !.mfa = TRUE, !.enabled = TRUE,
                                                    !.raced = challenge[k].raced])
       ELSE UNCHANGED <<challenge, recovery>> /\ Ends(c)
    /\ UNCHANGED <<composed, user, password, mfa, session, link, authorization>>

-----------------------------------------------------------------------------
(* Enrollment.                                                               *)

NoStartInProgress == Serialised => \A c \in Calls : call[c].pc # "enroll"
NothingBeingDecided ==
    Serialised => \A c \in Calls : call[c].pc \notin {"enroll", "complete", "emergency"}

\* startEnrollment reads the method without a lock ...
ReadMethod(c) ==
    /\ Starts(c, "enroll")
    /\ ~Enabled
    /\ NothingBeingDecided
    /\ Proceeds(c, "enroll", IdleCall)
    /\ UNCHANGED <<composed, user, password, mfa, session, link, factorVars>>

\* ... and resets it to pending whatever it has become.
StartEnrollment(c) ==
    /\ call[c].pc = "enroll"
    /\ mfa' = "pending"
    /\ Replaced("ENROLLMENT", "PASSWORD", Null, FALSE)
    /\ Ends(c)
    /\ UNCHANGED <<composed, user, password, session, link, recovery, authorization>>

StartCompletion(c, k, code) ==
    /\ Starts(c, "enroll")
    /\ Presentable(k, "ENROLLMENT")
    /\ mfa = "pending"
    /\ NoStartInProgress
    /\ Presents(c, k, code, IdleCall, "complete")
    /\ UNCHANGED <<composed, user, password, mfa, session, link, factorVars>>

\* completeEnrollment: all or nothing; the old recovery codes go with the commit.
CompleteEnrollment(c) ==
    LET k == call[c].row IN
    /\ call[c].pc = "complete"
    /\ IF Consumable(k) /\ CodeStands(call[c].code) /\ mfa = "pending"
       THEN /\ Consumed(k, Null)
            /\ NewSet
            /\ mfa' = "enabled"
            /\ session' = RevokeAll
       ELSE UNCHANGED <<challenge, recovery, mfa, session>>
    /\ Ends(c)
    /\ UNCHANGED <<composed, user, password, link, authorization>>

\* disableMfa holds the row locks of the principal and its method.
Disable ==
    /\ "disable" \in composed
    /\ Enabled
    /\ mfa' = "off"
    /\ recovery' = [recovery EXCEPT !.unused = FALSE]
    /\ challenge' = AllDeleted
    /\ session' = RevokeAll
    /\ UNCHANGED <<composed, user, password, link, call, authorization>>

StartRegeneration(c, s) ==
    /\ Validated(c, "regenerate", s)
    /\ session[s].recent = "fresh" /\ session[s].verified /\ Enabled
    /\ Proceeds(c, "regenerate", Context(s))
    /\ UNCHANGED <<composed, user, password, mfa, session, link, factorVars>>

\* regenerate; the host then issues the PASSWORD_EMAIL_OTP session it is told to.
Regenerate(c) ==
    /\ call[c].pc = "regenerate"
    /\ NewSet
    /\ session' = RevokeAll
    /\ Proceeds(c, "issue", [call[c] EXCEPT !.primary = "PASSWORD"])
    /\ UNCHANGED <<composed, user, password, mfa, link, challenge, authorization>>

StartEmergency(c, s) ==
    /\ Validated(c, "emergency", s)
    /\ user.role = "ADMIN"
    /\ session[s].recent = "fresh"
    /\ NoStartInProgress
    /\ Proceeds(c, "emergency", Context(s))
    /\ UNCHANGED <<composed, user, password, mfa, session, link, factorVars>>

\* enroll: the replacement session is inserted after all others are revoked.
EmergencyEnroll(c) ==
    /\ call[c].pc = "emergency"
    /\ IF authorization = "open"
       THEN /\ authorization' = "consumed"
            /\ mfa' = "enabled"
            /\ NewSet
            /\ challenge' = AllDeleted
            /\ \E s \in Sessions :
                 /\ session[s].state = "none"
                 /\ session' = [RevokeAll EXCEPT ![s] =
                       [Issued(call[c].primary, TRUE, password, FALSE) EXCEPT !.recent = "fresh"]]
       ELSE UNCHANGED <<authorization, mfa, recovery, challenge, session>>
    /\ Ends(c)
    /\ UNCHANGED <<composed, user, password, link>>

-----------------------------------------------------------------------------
(* Recent authentication.                                                    *)

Google(s) == session[s].primary = "GOOGLE_OIDC"

\* A Google session asks for a challenge of its own.
StartRecentChallenge(c, s) ==
    /\ Validated(c, "recent", s)
    /\ Google(s)
    /\ Proceeds(c, "sendRecent", Context(s))
    /\ UNCHANGED <<composed, user, password, mfa, session, link, factorVars>>

\* For a password principal the host asks by user id.
AskRecentChallenge(c) ==
    /\ Starts(c, "recent")
    /\ Proceeds(c, "sendRecent", IdleCall)
    /\ UNCHANGED <<composed, user, password, mfa, session, link, factorVars>>

SendRecentChallenge(c) ==
    LET s == call[c].session IN
    /\ call[c].pc = "sendRecent"
    /\ IF /\ user.status = "active"
          /\ s # Null => session[s].state = "live" /\ Google(s)
          /\ Enabled \/ (s # Null /\ user.verified)
       THEN Replaced("RECENT_AUTH", call[c].primary, s, FALSE)
       ELSE UNCHANGED challenge
    /\ Ends(c)
    /\ UNCHANGED <<composed, user, password, mfa, session, link, recovery, authorization>>

\* The session is validated and, unless it is a Google one, the password verified.
StartRecent(c, s) ==
    /\ Validated(c, "recent", s)
    /\ IF Google(s) THEN Enabled \/ user.verified ELSE Enabled \/ user.role = "CUSTOMER"
    /\ Proceeds(c, IF Google(s) \/ Enabled THEN "present" ELSE "upgrade",
                [Context(s) EXCEPT !.primary = IF Google(s) THEN @ ELSE "PASSWORD"])
    /\ UNCHANGED <<composed, user, password, mfa, session, link, factorVars>>

\* upgradePasswordOnlyCustomerSession
Upgrade(c) ==
    LET s == call[c].session IN
    /\ call[c].pc = "upgrade"
    /\ session' = IF Unrevoked(s) /\ user.status = "active" /\ ~Enabled
                  THEN [session EXCEPT ![s].recent = "fresh"] ELSE session
    /\ Ends(c)
    /\ UNCHANGED <<composed, user, password, mfa, link, factorVars>>

\* Mutant: any challenge that is bound to a session.
BoundToAny(k, primary, s) == (challenge[k].session # Null) <=> (primary = "GOOGLE_OIDC")

\* A Google session may only present the challenge bound to it, and a recovery
\* code only if MFA was enabled when the session was validated.
Bound(k, primary, s) ==
    challenge[k].session = IF primary = "GOOGLE_OIDC" THEN s ELSE Null

PresentRecent(c, k, code) ==
    /\ call[c].pc = "present"
    /\ Presentable(k, "RECENT_AUTH")
    /\ call[c].primary = "GOOGLE_OIDC" => Bound(k, call[c].primary, call[c].session)
    /\ code = "recovery" => call[c].mfa
    /\ Presents(c, k, code, call[c], "recent")
    /\ UNCHANGED <<composed, user, password, mfa, session, link, factorVars>>

\* The factor that completeMfaRecentAuth asks of the session: an MFA session under
\* enabled MFA, or the unenrolled Google session with its e-mailed code.
FactorStands(s, code) ==
    \/ session[s].verified /\ Enabled
    \/ Google(s) /\ code = 0 /\ ~session[s].verified /\ user.verified /\ ~Enabled

CompleteRecent(c) ==
    LET s == call[c].session
        k == call[c].row IN
    /\ call[c].pc = "recent"
    /\ IF /\ Consumable(k) /\ Bound(k, call[c].primary, s)
          /\ CodeStands(call[c].code)
          /\ Unrevoked(s) /\ user.status = "active" /\ FactorStands(s, call[c].code)
       THEN /\ Consumed(k, s)
            /\ recovery' = Spent(call[c].code)
            /\ session' = [session EXCEPT
                  ![s] = [session[s] EXCEPT !.recent = "fresh",
                                            !.verified = session[s].verified \/ Enabled,
                                            !.primary = call[c].primary]]
       ELSE UNCHANGED <<challenge, recovery, session>>
    /\ Ends(c)
    /\ UNCHANGED <<composed, user, password, mfa, link, authorization>>

-----------------------------------------------------------------------------
\* Ten minutes pass; an enrollment that was pending ends at the same instant.
LapseChallenge(k) ==
    /\ "time" \in composed
    /\ challenge[k].state = "pending"
    /\ challenge' = [challenge EXCEPT ![k].state = "lapsed"]
    /\ UNCHANGED <<composed, user, password, mfa, session, link, call, recovery, authorization>>

\* The owner revokes the authorization, or it expires.
Withdraw ==
    /\ authorization = "open"
    /\ authorization' = "consumed"
    /\ UNCHANGED <<composed, user, password, mfa, session, link, call, challenge, recovery>>

FactorNext ==
    \/ \E c \in Calls :
         \/ CountAttempt(c) \/ RequireFactor(c) \/ SendLoginChallenge(c) \/ Verify(c)
         \/ ReadMethod(c) \/ StartEnrollment(c) \/ CompleteEnrollment(c)
         \/ Regenerate(c) \/ EmergencyEnroll(c)
         \/ AskRecentChallenge(c) \/ SendRecentChallenge(c) \/ Upgrade(c) \/ CompleteRecent(c)
         \/ \E s \in Sessions : StartRegeneration(c, s) \/ StartEmergency(c, s)
                                  \/ StartRecentChallenge(c, s) \/ StartRecent(c, s)
         \/ \E k \in Challenges :
              \/ Reissue(c, k)
              \/ \E code \in {"email", "recovery", "wrong"} :
                   StartVerify(c, k, code) \/ StartCompletion(c, k, code)
                     \/ PresentRecent(c, k, code)
    \/ \E k \in Challenges : LapseChallenge(k)
    \/ Disable \/ Withdraw

Next == FactorNext \/ (SessionNext /\ UNCHANGED factorVars)

Spec == FactorInit /\ [][Next]_vars

-----------------------------------------------------------------------------
TypeOK ==
    /\ SessionsTyped
    /\ challenge \in [Challenges -> [state : {"none", "pending", "lapsed", "used", "deleted"},
                                     purpose : {"LOGIN", "ENROLLMENT", "RECENT_AUTH"},
                                     primary : {"PASSWORD", "GOOGLE_OIDC"},
                                     session : Sessions \cup {Null}, attempts : 0..MaxAttempts,
                                     raced : BOOLEAN, by : Sessions \cup {Null}, uses : 0..2]]
    /\ recovery \in [set : 1..MaxSets, unused : BOOLEAN, uses : 0..2]
    /\ authorization \in {"none", "open", "consumed"}

(* What a session says of its assurance is true: as long as it is open, its  *)
(* mfaVerifiedAt is set exactly if the principal's MFA is enabled.  Enabling *)
(* MFA ends the sessions without a second factor, disabling it those with    *)
(* one, a Google session's e-mailed code leaves mfaVerifiedAt null           *)
(* (docs/GOOGLE-OIDC.md:17), and no call in progress brings the other kind   *)
(* back, except a login, a link or a replacement session decided before the  *)
(* switch and inserted after it, which is marked as raced.                   *)
AssuranceIsTrue ==
    \A s \in Sessions :
        Unrevoked(s) /\ ~session[s].raced => (session[s].verified <=> Enabled)

(* The type invariant, and: a challenge that has met its limit of wrong      *)
(* codes is never consumed, also by a call that found it with attempts left. *)
AttemptsRespected ==
    /\ TypeOK
    /\ \A k \in Challenges :
          challenge[k].state = "used" => challenge[k].attempts < MaxAttempts

(* Of the calls that present one challenge, and of those that present one    *)
(* recovery code with whichever challenge, for a login, a recent             *)
(* authentication or an enrollment, one succeeds.                            *)
FactorsWorkOnce ==
    /\ \A k \in Challenges : challenge[k].uses <= 1
    /\ recovery.uses <= 1

(* A recent authentication raises exactly the Google session its challenge   *)
(* was issued to (docs/GOOGLE-OIDC.md:17).                                   *)
ChallengeIsBound ==
    \A k \in Challenges :
        /\ challenge[k].purpose = "RECENT_AUTH" /\ challenge[k].primary = "GOOGLE_OIDC"
        /\ challenge[k].uses > 0
        => challenge[k].by = challenge[k].session

(* Enabled MFA is switched off by the operation that disables it, never by   *)
(* another enrollment (tests/mfa-enrollment-start.certify.ts:152).  It does  *)
(* not hold (README, section 3): the start writes whatever it finds.         *)
EnabledIsNotReset == [][Enabled /\ ~Enabled' => Disable]_vars
=============================================================================
