-------------------------- MODULE IdentitySessions --------------------------
(***************************************************************************)
(* Sessions, the password and the mailed links of one principal            *)
(* (src/@bke/identity).  Every query of the repositories is by user id or  *)
(* by an unguessable hash, so one principal with all its rows is enough.   *)
(*                                                                         *)
(* A call is a process: what it reads and what it writes afterwards are    *)
(* steps of their own wherever the code awaits between them.  One step is  *)
(* one statement or one transaction.  A call can end after any step: the   *)
(* host dies, or persistence or a provider is unavailable.  Expiry is an   *)
(* event of its row; a step that compares an expiry with a `now` read      *)
(* earlier does not see an event that happened since.                      *)
(***************************************************************************)
EXTENDS Naturals, FiniteSets

CONSTANTS
    Calls,          \* calls in progress at one time
    Sessions,       \* bound: Session rows that can be inserted
    Links,          \* bound: VerificationToken and PasswordResetToken rows
    MaxPassword,    \* bound: how often the password is replaced, plus one
    Compositions,   \* what a host may compose (docs/USAGE.md, 3) and meet: "review", "time"
    Principals(_),  \* the User rows a composition may start with
    Null

ASSUME SessionsAssumption ==
    /\ MaxPassword \in Nat \ {0}
    /\ Null \notin Sessions
    /\ \A host \in Compositions :
          Principals(host) \subseteq [role : {"CUSTOMER", "ADMIN"},
                                     status : {"active", "suspended", "closed"}, verified : BOOLEAN]

VARIABLES
    composed,   \* the capabilities and events of this host
    user,       \* the User row: role, status, emailVerified
    password,   \* version of the PasswordCredential
    mfa,        \* AdministratorMfaMethod; "off": no row, or a disabled one
    session,    \* Session rows
    link,       \* mailed one-time links
    call        \* what each call has read and where it stands

sessionVars == <<composed, user, password, mfa, session, link, call>>

NoSession ==
    [state |-> "none", primary |-> "PASSWORD", verified |-> FALSE, recent |-> "never",
     since |-> 0, raced |-> FALSE]
NoLink == [state |-> "none", kind |-> "RESET", uses |-> 0]
IdleCall ==
    [pc |-> "idle", session |-> Null, row |-> Null, primary |-> "PASSWORD",
     code |-> 0, mfa |-> FALSE, enabled |-> FALSE, raced |-> FALSE]

Enabled == mfa = "enabled"

Init ==
    /\ composed \in Compositions
    /\ user \in Principals(composed)
    /\ password = 1
    /\ mfa \in {"off", "enabled"}
    /\ session = [s \in Sessions |-> NoSession]
    /\ link = [k \in Links |-> NoLink]
    /\ call = [c \in Calls |-> IdleCall]

Starts(c, capability) == call[c].pc = "idle" /\ capability \in composed
Proceeds(c, pc, facts) == call' = [call EXCEPT ![c] = [facts EXCEPT !.pc = pc]]
Ends(c) == call' = [call EXCEPT ![c] = IdleCall]

-----------------------------------------------------------------------------
(* Session rows.  Two fields are history: `since`, the password version at   *)
(* the insert, and `raced`, whether MFA was switched between the read that   *)
(* decided the session's assurance (`enabled` of the call) and the insert.   *)

Unrevoked(s) == session[s].state \in {"live", "due"}

\* No statement reads more of a revoked row than that it is revoked.
Revoked == [NoSession EXCEPT !.state = "revoked"]
RevokeAll == [s \in Sessions |-> IF Unrevoked(s) THEN Revoked ELSE session[s]]

\* assuranceFor: a factor beside the primary one verifies MFA; a password, and
\* only a password, is recent authentication.
Issued(primary, withFactor, at, raced) ==
    [state |-> "live", primary |-> primary, verified |-> withFactor,
     recent |-> IF primary = "PASSWORD" THEN "fresh" ELSE "never",
     since |-> at, raced |-> raced]

MayHaveSession == user.role = "ADMIN" \/ user.status = "active"

\* issueSession re-reads the principal, and nothing else the call has read.
IssueSession(c) ==
    /\ call[c].pc = "issue"
    /\ IF MayHaveSession
       THEN \E s \in Sessions :
              /\ session[s].state = "none"
              /\ session' = [session EXCEPT ![s] =
                    Issued(call[c].primary, call[c].mfa, password,
                           call[c].raced \/ call[c].enabled # Enabled)]
       ELSE UNCHANGED session
    /\ Ends(c)
    /\ UNCHANGED <<composed, user, password, mfa, link>>

Valid(s) == session[s].state = "live" /\ user.status # "suspended"

\* validate, when it answers VALID: the context the caller then works with.
Validated(c, capability, s) ==
    /\ Starts(c, capability)
    /\ Valid(s)

Context(s) ==
    [IdleCall EXCEPT !.session = s, !.primary = session[s].primary, !.mfa = Enabled,
                     !.enabled = Enabled]

\* validate revokes a session it finds expired, idle, or of a suspended principal.
Invalidate(s) ==
    /\ Unrevoked(s) /\ ~Valid(s)
    /\ session' = [session EXCEPT ![s] = Revoked]
    /\ UNCHANGED <<composed, user, password, mfa, link, call>>

\* The absolute lifetime or the idle time of a session passes.
FallDue(s) ==
    /\ "time" \in composed
    /\ session[s].state = "live"
    /\ session' = [session EXCEPT ![s].state = "due"]
    /\ UNCHANGED <<composed, user, password, mfa, link, call>>

\* Fifteen minutes pass since the recent authentication.
GrowStale(s) ==
    /\ "time" \in composed
    /\ Unrevoked(s) /\ session[s].recent = "fresh"
    /\ session' = [session EXCEPT ![s].recent = "stale"]
    /\ UNCHANGED <<composed, user, password, mfa, link, call>>

Terminate(s) ==
    /\ "administration" \in composed
    /\ Unrevoked(s)
    /\ session' = [session EXCEPT ![s] = Revoked]
    /\ UNCHANGED <<composed, user, password, mfa, link, call>>

\* ALL, or OTHERS than the current one; ONE has the effect of Terminate.
Administrate(kept) ==
    /\ "administration" \in composed
    /\ user.role = "ADMIN"
    /\ \E s \in Sessions : Unrevoked(s) /\ s \notin kept
    /\ session' = [s \in Sessions |-> IF s \in kept THEN session[s] ELSE RevokeAll[s]]
    /\ UNCHANGED <<composed, user, password, mfa, link, call>>

-----------------------------------------------------------------------------
(* Primary authentication.                                                   *)

\* Mutant: a login never asks for the second factor.
PrimaryRoute == "issue"
Route == IF Enabled THEN "challenge" ELSE "issue"

\* authenticate: the password read is the one given, or the Google subject is
\* bound to this principal, who must be active then.
Authenticate(c, primary) ==
    /\ Starts(c, "login")
    /\ primary = "GOOGLE_OIDC" => user.status = "active"
    /\ Proceeds(c, Route, [IdleCall EXCEPT !.primary = primary, !.enabled = Enabled])
    /\ UNCHANGED <<composed, user, password, mfa, session, link>>

-----------------------------------------------------------------------------
(* The password.                                                             *)

StartChange(c, s) ==
    /\ Validated(c, "change", s)
    /\ session[s].recent = "fresh"
    /\ Proceeds(c, "prove", Context(s))
    /\ UNCHANGED <<composed, user, password, mfa, session, link>>

\* The credential is read and verified; the new password is hashed afterwards.
ProveCurrent(c) ==
    /\ call[c].pc = "prove"
    /\ Proceeds(c, "change", call[c])
    /\ UNCHANGED <<composed, user, password, mfa, session, link>>

\* Mutant: the statement that ends the sessions is missing.
ReplaceOnly ==
    /\ password < MaxPassword
    /\ password' = password + 1
    /\ UNCHANGED session

ReplacePassword ==
    /\ password < MaxPassword
    /\ password' = password + 1
    /\ session' = RevokeAll

\* changePassword asks neither for the credential it verified nor for the
\* session; changeAndReissue then issues a PASSWORD or PASSWORD_EMAIL_OTP session.
Change(c) ==
    /\ call[c].pc = "change"
    /\ ReplacePassword
    /\ Proceeds(c, "issue", [call[c] EXCEPT !.primary = "PASSWORD"])
    /\ UNCHANGED <<composed, user, mfa, link>>

-----------------------------------------------------------------------------
(* One-time links: reset the password, log in, verify the address.           *)

Unused(k) == link[k].state \in {"pending", "lapsed"}
Superseded(kind) ==
    [k \in Links |->
        IF link[k].kind = kind /\ Unused(k) THEN [link[k] EXCEPT !.state = "used"] ELSE link[k]]
Used(links, k) == [links EXCEPT ![k].state = "used", ![k].uses = @ + 1]

\* The row lock of consumeAndIssueSession (FOR UPDATE OF vt).
Locked(k) == \E c \in Calls : call[c].pc = "magic" /\ call[c].row = k

\* The row of a new link, among the rows it leaves.
Mailed(links, kind) ==
    \E k \in Links :
      /\ link[k].state = "none"
      /\ link' = [links EXCEPT ![k] = [state |-> "pending", kind |-> kind, uses |-> 0]]

\* A reset link is added to those already mailed.
MailReset ==
    /\ "RESET" \in composed
    /\ Mailed(link, "RESET")
    /\ UNCHANGED <<composed, user, password, mfa, session, call>>

\* A login link is for customers without MFA, a verification link for an address
\* not yet verified. Both are found out first ...
MayLogInByLink == user.role = "CUSTOMER" /\ ~Enabled

StartMagicMail(c) ==
    /\ Starts(c, "MAGIC")
    /\ MayLogInByLink
    /\ Proceeds(c, "mail magic", IdleCall)
    /\ UNCHANGED <<composed, user, password, mfa, session, link>>

StartVerificationMail(c) ==
    /\ Starts(c, "VERIFY")
    /\ ~user.verified
    /\ Proceeds(c, "mail verify", IdleCall)
    /\ UNCHANGED <<composed, user, password, mfa, session, link>>

\* ... and the new link then replaces the unused ones of its kind.
MailMagic(c) ==
    /\ call[c].pc = "mail magic"
    /\ \A k \in Links : ~Locked(k)
    /\ Mailed(Superseded("MAGIC"), "MAGIC")
    /\ Ends(c)
    /\ UNCHANGED <<composed, user, password, mfa, session>>

MailVerification(c) ==
    /\ call[c].pc = "mail verify"
    /\ Mailed(Superseded("VERIFY"), "VERIFY")
    /\ Ends(c)
    /\ UNCHANGED <<composed, user, password, mfa, session>>

Lapse(k) ==
    /\ "time" \in composed
    /\ link[k].state = "pending"
    /\ link' = [link EXCEPT ![k].state = "lapsed"]
    /\ UNCHANGED <<composed, user, password, mfa, session, call>>

Pending(k, kind) == link[k].state = "pending" /\ link[k].kind = kind

StartReset(c, k) ==
    /\ Starts(c, "RESET")
    /\ Pending(k, "RESET")
    /\ Proceeds(c, "reset", [IdleCall EXCEPT !.row = k])
    /\ UNCHANGED <<composed, user, password, mfa, session, link>>

\* Mutant: the link is not read again.
WasUnused(k) == link[k].kind = "RESET"

\* complete: the link must still be unused; the other links stay as they are.
StillUnused(k) == Unused(k)

Reset(c) ==
    /\ call[c].pc = "reset"
    /\ IF StillUnused(call[c].row)
       THEN ReplacePassword /\ link' = Used(link, call[c].row)
       ELSE UNCHANGED <<password, session, link>>
    /\ Ends(c)
    /\ UNCHANGED <<composed, user, mfa>>

\* consumeAndIssueSession: the principal and its MFA method are read without a
\* lock, in the statement that locks the link.
StartMagic(c, k) ==
    /\ Starts(c, "MAGIC")
    /\ Pending(k, "MAGIC") /\ ~Locked(k)
    /\ user.role = "CUSTOMER" /\ user.status = "active" /\ ~Enabled
    /\ Proceeds(c, "magic", [IdleCall EXCEPT !.row = k, !.primary = "MAGIC_LINK",
                                             !.enabled = Enabled])
    /\ UNCHANGED <<composed, user, password, mfa, session, link>>

Magic(c) ==
    /\ call[c].pc = "magic"
    /\ \E s \in Sessions :
         /\ session[s].state = "none"
         /\ session' = [session EXCEPT ![s] = Issued("MAGIC_LINK", FALSE, password, call[c].enabled # Enabled)]
    /\ link' = Used(link, call[c].row)
    /\ Ends(c)
    /\ UNCHANGED <<composed, user, password, mfa>>

VerifyEmail(k) ==
    /\ "VERIFY" \in composed
    /\ Pending(k, "VERIFY")
    /\ link' = Used(link, k)
    /\ user' = [user EXCEPT !.verified = TRUE]
    /\ UNCHANGED <<composed, password, mfa, session, call>>

-----------------------------------------------------------------------------
\* The owner suspends or closes the principal, or lifts the suspension.
Review(status) ==
    /\ "review" \in composed
    /\ user.status # status /\ user.status # "closed"
    /\ user' = [user EXCEPT !.status = status]
    /\ UNCHANGED <<composed, password, mfa, session, link, call>>

\* The call ends without its next step: a wrong proof, an outage or a crash.
Abandon(c) ==
    /\ call[c].pc # "idle"
    /\ Ends(c)
    /\ UNCHANGED <<composed, user, password, mfa, session, link>>

SessionNext ==
    \/ \E c \in Calls :
         \/ IssueSession(c) \/ ProveCurrent(c) \/ Change(c) \/ Reset(c) \/ Magic(c) \/ Abandon(c)
         \/ StartMagicMail(c) \/ StartVerificationMail(c) \/ MailMagic(c) \/ MailVerification(c)
         \/ \E primary \in {"PASSWORD", "GOOGLE_OIDC"} : Authenticate(c, primary)
         \/ \E s \in Sessions : StartChange(c, s)
         \/ \E k \in Links : StartReset(c, k) \/ StartMagic(c, k)
    \/ \E s \in Sessions : Invalidate(s) \/ FallDue(s) \/ GrowStale(s) \/ Terminate(s)
    \/ \E kept \in {{}} \cup {{s} : s \in Sessions} : Administrate(kept)
    \/ MailReset
    \/ \E k \in Links : Lapse(k) \/ VerifyEmail(k)
    \/ \E status \in {"active", "suspended", "closed"} : Review(status)

-----------------------------------------------------------------------------
SessionsTyped ==
    /\ composed \in Compositions
    /\ user \in [role : {"CUSTOMER", "ADMIN"}, status : {"active", "suspended", "closed"},
                 verified : BOOLEAN]
    /\ password \in 1..MaxPassword
    /\ mfa \in {"off", "pending", "enabled"}
    /\ session \in [Sessions -> [state : {"none", "live", "due", "revoked"},
                                 primary : {"PASSWORD", "GOOGLE_OIDC", "MAGIC_LINK"},
                                 verified : BOOLEAN, recent : {"never", "fresh", "stale"},
                                 since : 0..MaxPassword, raced : BOOLEAN]]
    /\ link \in [Links -> [state : {"none", "pending", "lapsed", "used"},
                           kind : {"RESET", "MAGIC", "VERIFY"}, uses : 0..2]]

(* A password that is replaced, by a change or through a mailed link, ends   *)
(* every session that existed: no session outlives the password under which  *)
(* it was inserted, whichever calls were in progress.  A login that had read *)
(* the old password may insert its session afterwards; that one is dated     *)
(* with the new version (see the README).                                    *)
PasswordEndsSessions ==
    \A s \in Sessions : Unrevoked(s) => session[s].since = password

(* A mailed link works once: of several calls that have found it unused, one *)
(* resets the password, opens a session or verifies the address.             *)
LinksWorkOnce == \A k \in Links : link[k].uses <= 1
=============================================================================
