----------------------- MODULE IdentityFactorsProofs -----------------------
(***************************************************************************)
(* Proofs about IdentitySessions and IdentityFactors, for every value of   *)
(* their constants.                                                        *)
(***************************************************************************)
EXTENDS IdentityFactors, TLAPS

Primary == {"PASSWORD", "GOOGLE_OIDC", "MAGIC_LINK"}

CallRecord ==
    [pc : {"idle", "issue", "prove", "change", "mail magic", "mail verify", "reset", "magic",
           "challenge", "send", "verify", "wrong", "enroll", "complete", "regenerate",
           "emergency", "sendRecent", "present", "upgrade", "recent"},
     session : Sessions \cup {Null}, row : Links \cup Challenges \cup {Null},
     primary : Primary, code : Nat, mfa : BOOLEAN, enabled : BOOLEAN, raced : BOOLEAN]

SessionRecord ==
    [state : {"none", "live", "due", "revoked"}, primary : Primary, verified : BOOLEAN,
     recent : {"never", "fresh", "stale"}, since : 0 .. MaxPassword, raced : BOOLEAN]

LinkRecord ==
    [state : {"none", "pending", "lapsed", "used"}, kind : {"RESET", "MAGIC", "VERIFY"},
     uses : {0, 1, 2}]

ChallengeRecord ==
    [state : {"none", "pending", "lapsed", "used", "deleted"},
     purpose : {"LOGIN", "ENROLLMENT", "RECENT_AUTH"}, primary : {"PASSWORD", "GOOGLE_OIDC"},
     session : Sessions \cup {Null}, attempts : 0 .. MaxAttempts, raced : BOOLEAN,
     by : Sessions \cup {Null}, uses : {0, 1, 2}]

\* The rows that no two calls write against each other's reading.
RowsInv ==
    /\ composed \in Compositions
    /\ user \in [role : {"CUSTOMER", "ADMIN"}, status : {"active", "suspended", "closed"},
                 verified : BOOLEAN]
    /\ password \in 1 .. MaxPassword
    /\ mfa \in {"off", "pending", "enabled"}
    /\ authorization \in {"none", "open", "consumed"}

SessionInv ==
    /\ session \in [Sessions -> SessionRecord]
    /\ PasswordEndsSessions

LinkInv ==
    /\ link \in [Links -> LinkRecord]
    /\ \A k \in Links : link[k].uses = 0 \/ (link[k].state = "used" /\ link[k].uses = 1)

\* A challenge of a Google session names it, and was consumed by it.
ChallengeInv ==
    /\ challenge \in [Challenges -> ChallengeRecord]
    /\ \A k \in Challenges :
          /\ challenge[k].uses = 0 \/ (challenge[k].state = "used" /\ challenge[k].uses = 1)
          /\ challenge[k].state = "used" => challenge[k].attempts < MaxAttempts
          /\ challenge[k].purpose = "RECENT_AUTH" /\ challenge[k].primary = "GOOGLE_OIDC"
                => /\ challenge[k].session \in Sessions
                   /\ challenge[k].uses > 0 => challenge[k].by = challenge[k].session

RecoveryInv ==
    /\ recovery \in [set : 1 .. MaxSets, unused : BOOLEAN, uses : {0, 1, 2}]
    /\ recovery.uses = 0 \/ (~recovery.unused /\ recovery.uses = 1)

\* What the local state l of a call says about itself and the rows it has found.
LocalInv(l, links, rows) ==
    /\ l.pc = "issue" => l.raced \/ (l.mfa <=> l.enabled)
    /\ l.pc \in {"prove", "change", "regenerate"} => (l.mfa <=> l.enabled)
    /\ l.pc = "reset" => /\ l.row \in Links
                         /\ links[l.row].state # "none" /\ links[l.row].kind = "RESET"
    /\ l.pc = "magic" => /\ l.row \in Links /\ ~l.enabled
                         /\ links[l.row].state \in {"pending", "lapsed"}
                         /\ links[l.row].kind = "MAGIC"
    /\ l.pc \in {"challenge", "send", "present", "recent"} => l.primary # "MAGIC_LINK"
    /\ l.pc \in {"verify", "wrong", "complete", "recent"} => l.row \in Challenges
    /\ l.pc \in {"verify", "complete"} => /\ rows[l.row].state # "none"
                                          /\ rows[l.row].purpose # "RECENT_AUTH"
    /\ l.pc \in {"present", "recent", "upgrade"} => l.session \in Sessions
    /\ l.pc = "sendRecent" => \/ l.primary = "GOOGLE_OIDC" /\ l.session \in Sessions
                              \/ l.primary = "PASSWORD" /\ l.session = Null

\* The row lock of a login link is held by one call.
LockInv ==
    \A c, d \in Calls :
        call[c].pc = "magic" /\ call[d].pc = "magic" /\ call[c].row = call[d].row => c = d

CallInv ==
    /\ call \in [Calls -> CallRecord]
    /\ \A c \in Calls : LocalInv(call[c], link, challenge)
    /\ LockInv

Inv ==
    /\ RowsInv /\ SessionInv /\ LinkInv /\ ChallengeInv /\ RecoveryInv /\ CallInv

\* Beyond Inv, for a host that orders enrollments: while one call has found the method
\* disabled and is about to reset it, it stays so and nobody decides an enrollment.
OrderInv ==
    \A c \in Calls : call[c].pc = "enroll" =>
        /\ ~Enabled
        /\ \A d \in Calls \ {c} : call[d].pc \notin {"enroll", "complete", "emergency"}

----------------------------------------------------------------------------
(* Types of the records that steps build.                                   *)

LEMMA IdleType == IdleCall \in CallRecord
  BY DEF IdleCall, CallRecord, Primary

LEMMA EnabledType == Enabled \in BOOLEAN
  BY DEF Enabled

LEMMA ContextType ==
  ASSUME Inv, NEW s \in Sessions
  PROVE  /\ Context(s) \in CallRecord
         /\ Context(s).session = s /\ Context(s).primary = session[s].primary
         /\ Context(s).mfa = Enabled /\ Context(s).enabled = Enabled
  <1>1. session[s].primary \in Primary
    BY DEF Inv, SessionInv, SessionRecord
  <1> QED
    BY <1>1, EnabledType DEF Context, IdleCall, CallRecord, Primary

LEMMA IssuedType ==
  ASSUME NEW primary \in Primary, NEW withFactor \in BOOLEAN, NEW at \in 0 .. MaxPassword,
         NEW raced \in BOOLEAN
  PROVE  /\ Issued(primary, withFactor, at, raced) \in SessionRecord
         /\ Issued(primary, withFactor, at, raced).state = "live"
         /\ Issued(primary, withFactor, at, raced).since = at
         /\ Issued(primary, withFactor, at, raced).verified = withFactor
         /\ Issued(primary, withFactor, at, raced).raced = raced
  BY DEF Issued, SessionRecord

LEMMA RevokedType == Revoked \in SessionRecord /\ Revoked.state = "revoked"
  <1>1. 0 \in 0 .. MaxPassword
    BY SessionsAssumption
  <1> QED
    BY <1>1 DEF Revoked, NoSession, SessionRecord, Primary

LEMMA RevokeAllType ==
  ASSUME Inv
  PROVE  /\ RevokeAll \in [Sessions -> SessionRecord]
         /\ \A s \in Sessions : RevokeAll[s].state \in {"none", "revoked"}
  BY RevokedType DEF RevokeAll, Unrevoked, Inv, SessionInv, SessionRecord

----------------------------------------------------------------------------
(* What a step of one call leaves to the others.                            *)

\* Links keep their kind, and stay unused while a call outside C holds their lock.
LinksKept(C) ==
    /\ \A k \in Links : link[k].state # "none" =>
          link'[k].state # "none" /\ link'[k].kind = link[k].kind
    /\ \A d \in Calls \ C : call[d].pc = "magic" =>
          link'[call[d].row].state \in {"pending", "lapsed"}

\* No challenge becomes one of recent authentication after its insert.
ChallengesKept ==
    \A k \in Challenges : challenge[k].state # "none" =>
        /\ challenge'[k].state # "none"
        /\ challenge[k].purpose # "RECENT_AUTH" => challenge'[k].purpose # "RECENT_AUTH"

LEMMA OthersKeep ==
  ASSUME Inv, NEW C, NEW d \in Calls \ C, LinksKept(C), ChallengesKept
  PROVE  LocalInv(call[d], link', challenge')
  <1>1. LocalInv(call[d], link, challenge) /\ call[d] \in CallRecord
    BY DEF Inv, CallInv
  <1>2. call[d].pc = "reset" => /\ link'[call[d].row].state # "none"
                                /\ link'[call[d].row].kind = "RESET"
    BY <1>1 DEF LocalInv, LinksKept
  <1>3. call[d].pc = "magic" => /\ link'[call[d].row].state \in {"pending", "lapsed"}
                                /\ link'[call[d].row].kind = "MAGIC"
    BY <1>1 DEF LocalInv, LinksKept
  <1>4. call[d].pc \in {"verify", "complete"} => /\ challenge'[call[d].row].state # "none"
                                                 /\ challenge'[call[d].row].purpose # "RECENT_AUTH"
    BY <1>1 DEF LocalInv, ChallengesKept
  <1> QED
    BY <1>1, <1>2, <1>3, <1>4 DEF LocalInv

LEMMA CallStep ==
  ASSUME Inv, NEW c \in Calls, NEW l \in CallRecord, call' = [call EXCEPT ![c] = l],
         LocalInv(l, link', challenge'),
         l.pc = "magic" => \A d \in Calls \ {c} : ~(call[d].pc = "magic" /\ call[d].row = l.row),
         LinksKept({c}), ChallengesKept
  PROVE  CallInv'
  <1>1. call \in [Calls -> CallRecord] /\ LockInv
    BY DEF Inv, CallInv
  <1>2. call' \in [Calls -> CallRecord] /\ call'[c] = l /\ \A d \in Calls \ {c} : call'[d] = call[d]
    BY <1>1
  <1>3. ASSUME NEW d \in Calls PROVE LocalInv(call'[d], link', challenge')
    BY <1>2, OthersKeep
  <1>4. LockInv'
    BY <1>1, <1>2 DEF LockInv
  <1> QED
    BY <1>2, <1>3, <1>4 DEF CallInv

\* The end of a call, for which nothing has to be shown.
LEMMA CallEnds ==
  ASSUME Inv, NEW c \in Calls, Ends(c), LinksKept({c}), ChallengesKept
  PROVE  CallInv'
  <1>1. LocalInv(IdleCall, link', challenge') /\ IdleCall.pc = "idle"
    BY DEF LocalInv, IdleCall
  <1> QED
    BY <1>1, IdleType, CallStep DEF Ends

LEMMA CallsWait ==
  ASSUME Inv, UNCHANGED call, LinksKept({}), ChallengesKept
  PROVE  CallInv'
  <1>1. ASSUME NEW d \in Calls PROVE LocalInv(call[d], link', challenge')
    BY OthersKeep
  <1> QED
    BY <1>1 DEF Inv, CallInv, LockInv

\* Neither links nor challenges change.
LEMMA NothingMailed ==
  ASSUME Inv, NEW C, UNCHANGED <<link, challenge>>
  PROVE  LinksKept(C) /\ ChallengesKept
  BY DEF LinksKept, ChallengesKept, Inv, CallInv, LocalInv

----------------------------------------------------------------------------
(* Steps that change nothing but the local state of one call.               *)

LEMMA LocalStep ==
  ASSUME Inv, NEW c \in Calls, NEW l \in CallRecord, call' = [call EXCEPT ![c] = l],
         LocalInv(l, link, challenge),
         l.pc = "magic" => ~Locked(l.row),
         UNCHANGED <<composed, user, password, mfa, session, link, factorVars>>
  PROVE  Inv'
  <1>1. UNCHANGED <<link, challenge>>
    BY DEF factorVars
  <1>2. CallInv'
    BY <1>1, NothingMailed, CallStep DEF Locked
  <1> QED
    BY <1>2 DEF Inv, RowsInv, SessionInv, PasswordEndsSessions, Unrevoked, LinkInv, ChallengeInv,
                RecoveryInv, factorVars

LEMMA AbandonInv ==
  ASSUME Inv, NEW c \in Calls, Abandon(c), UNCHANGED factorVars
  PROVE  Inv'
  <1>1. LocalInv(IdleCall, link, challenge) /\ IdleCall.pc = "idle"
    BY DEF LocalInv, IdleCall
  <1> QED
    BY <1>1, IdleType, LocalStep DEF Abandon, Ends

LEMMA AuthenticateInv ==
  ASSUME Inv, NEW c \in Calls, NEW primary \in {"PASSWORD", "GOOGLE_OIDC"},
         Authenticate(c, primary), UNCHANGED factorVars
  PROVE  Inv'
  <1> DEFINE facts == [IdleCall EXCEPT !.primary = primary, !.enabled = Enabled]
             l == [facts EXCEPT !.pc = Route]
  <1>1. l \in CallRecord /\ l.pc = Route /\ l.primary = primary /\ l.mfa = FALSE /\ l.enabled = Enabled
    BY EnabledType DEF CallRecord, IdleCall, Route, Primary
  <1>2. (Enabled => Route = "challenge") /\ (~Enabled => Route = "issue")
    BY DEF Route
  <1>3. LocalInv(l, link, challenge) /\ l.pc # "magic"
    BY <1>1, <1>2 DEF LocalInv
  <1>4. call' = [call EXCEPT ![c] = l]
    BY DEF Authenticate, Proceeds
  <1> QED
    BY <1>1, <1>3, <1>4, LocalStep DEF Authenticate

LEMMA StartChangeInv ==
  ASSUME Inv, NEW c \in Calls, NEW s \in Sessions, StartChange(c, s), UNCHANGED factorVars
  PROVE  Inv'
  <1> DEFINE l == [Context(s) EXCEPT !.pc = "prove"]
  <1>1. l \in CallRecord /\ l.pc = "prove" /\ l.mfa = l.enabled
    BY ContextType DEF CallRecord
  <1>2. LocalInv(l, link, challenge)
    BY <1>1 DEF LocalInv
  <1> QED
    BY <1>1, <1>2, LocalStep DEF StartChange, Proceeds

LEMMA ProveCurrentInv ==
  ASSUME Inv, NEW c \in Calls, ProveCurrent(c), UNCHANGED factorVars
  PROVE  Inv'
  <1> DEFINE l == [call[c] EXCEPT !.pc = "change"]
  <1>1. call[c] \in CallRecord /\ call[c].mfa = call[c].enabled
    BY DEF ProveCurrent, Inv, CallInv, LocalInv, CallRecord
  <1>2. l \in CallRecord /\ l.pc = "change" /\ l.mfa = l.enabled
    BY <1>1 DEF CallRecord
  <1>3. LocalInv(l, link, challenge)
    BY <1>2 DEF LocalInv
  <1> QED
    BY <1>2, <1>3, LocalStep DEF ProveCurrent, Proceeds

LEMMA StartMailInv ==
  ASSUME Inv, NEW c \in Calls, StartMagicMail(c) \/ StartVerificationMail(c), UNCHANGED factorVars
  PROVE  Inv'
  <1>1. PICK pc \in {"mail magic", "mail verify"} : Proceeds(c, pc, IdleCall)
    BY DEF StartMagicMail, StartVerificationMail
  <1> DEFINE l == [IdleCall EXCEPT !.pc = pc]
  <1>2. l \in CallRecord /\ l.pc = pc
    BY <1>1, IdleType DEF CallRecord
  <1>3. LocalInv(l, link, challenge)
    BY <1>1, <1>2 DEF LocalInv
  <1>4. UNCHANGED <<composed, user, password, mfa, session, link>>
    BY DEF StartMagicMail, StartVerificationMail
  <1> QED
    BY <1>1, <1>2, <1>3, <1>4, LocalStep DEF Proceeds, factorVars

LEMMA StartResetInv ==
  ASSUME Inv, NEW c \in Calls, NEW k \in Links, StartReset(c, k), UNCHANGED factorVars
  PROVE  Inv'
  <1> DEFINE facts == [IdleCall EXCEPT !.row = k]
             l == [facts EXCEPT !.pc = "reset"]
  <1>1. l \in CallRecord /\ l.pc = "reset" /\ l.row = k
    BY IdleType DEF CallRecord
  <1>2. LocalInv(l, link, challenge)
    BY <1>1 DEF LocalInv, StartReset, Pending
  <1> QED
    BY <1>1, <1>2, LocalStep DEF StartReset, Proceeds

LEMMA StartMagicInv ==
  ASSUME Inv, NEW c \in Calls, NEW k \in Links, StartMagic(c, k), UNCHANGED factorVars
  PROVE  Inv'
  <1> DEFINE facts == [IdleCall EXCEPT !.row = k, !.primary = "MAGIC_LINK", !.enabled = Enabled]
             l == [facts EXCEPT !.pc = "magic"]
  <1>1. l \in CallRecord /\ l.pc = "magic" /\ l.row = k /\ l.enabled = Enabled
    BY IdleType, EnabledType DEF CallRecord, Primary
  <1>2. LocalInv(l, link, challenge)
    BY <1>1 DEF LocalInv, StartMagic, Pending
  <1>3. call' = [call EXCEPT ![c] = l] /\ ~Locked(k)
    BY DEF StartMagic, Proceeds
  <1> QED
    BY <1>1, <1>2, <1>3, LocalStep DEF StartMagic

----------------------------------------------------------------------------
(* Sessions and the password.                                               *)

LEMMA SessionStored ==
  ASSUME Inv, NEW s \in Sessions, NEW r \in SessionRecord, UNCHANGED password,
         r.state \in {"live", "due"} => r.since = password,
         session' = [session EXCEPT ![s] = r]
  PROVE  SessionInv'
  BY DEF Inv, SessionInv, PasswordEndsSessions, Unrevoked

LEMMA SessionsKept ==
  ASSUME Inv, UNCHANGED <<session, password>>
  PROVE  SessionInv'
  BY DEF Inv, SessionInv, PasswordEndsSessions, Unrevoked

LEMMA SessionsRevoked ==
  ASSUME Inv, session' = RevokeAll
  PROVE  SessionInv'
  BY RevokeAllType DEF SessionInv, PasswordEndsSessions, Unrevoked

\* A step on sessions, the user and the calls only.
LEMMA SessionStep ==
  ASSUME Inv, RowsInv', SessionInv', CallInv', UNCHANGED <<link, factorVars>>
  PROVE  Inv'
  BY DEF Inv, LinkInv, ChallengeInv, RecoveryInv, factorVars

LEMMA RowsKept ==
  ASSUME Inv, UNCHANGED <<composed, user, password, mfa, authorization>>
  PROVE  RowsInv'
  BY DEF Inv, RowsInv

LEMMA IssueSessionInv ==
  ASSUME Inv, NEW c \in Calls, IssueSession(c), UNCHANGED factorVars
  PROVE  Inv'
  <1>1. call[c] \in CallRecord /\ password \in 0 .. MaxPassword
    BY SessionsAssumption DEF Inv, CallInv, RowsInv
  <1>2. SessionInv'
    <2>1. CASE UNCHANGED session
      BY <2>1, SessionsKept DEF IssueSession
    <2>2. ASSUME NEW s \in Sessions,
                 session' = [session EXCEPT ![s] =
                    Issued(call[c].primary, call[c].mfa, password,
                           call[c].raced \/ call[c].enabled # Enabled)]
          PROVE  SessionInv'
      <3> DEFINE raced == call[c].raced \/ call[c].enabled # Enabled
      <3>1. call[c].primary \in Primary /\ call[c].mfa \in BOOLEAN /\ raced \in BOOLEAN
        BY <1>1 DEF CallRecord
      <3> HIDE DEF raced
      <3>2. session' = [session EXCEPT ![s] = Issued(call[c].primary, call[c].mfa, password, raced)]
        BY <2>2 DEF raced
      <3> DEFINE r == Issued(call[c].primary, call[c].mfa, password, raced)
      <3>3. r \in SessionRecord /\ r.since = password
        BY <3>1, <1>1, IssuedType
      <3>4. session' = [session EXCEPT ![s] = r] /\ UNCHANGED password
        BY <3>2 DEF IssueSession
      <3> HIDE DEF r
      <3> QED
        BY <3>3, <3>4, SessionStored
    <2> QED
      BY <2>1, <2>2 DEF IssueSession
  <1>3. Ends(c) /\ UNCHANGED <<link, challenge>>
    BY DEF IssueSession, factorVars
  <1>4. CallInv'
    BY <1>3, NothingMailed, CallEnds
  <1> QED
    BY <1>2, <1>4, RowsKept, SessionStep DEF IssueSession, factorVars

LEMMA ChangeInv ==
  ASSUME Inv, NEW c \in Calls, Change(c), UNCHANGED factorVars
  PROVE  Inv'
  <1> DEFINE facts == [call[c] EXCEPT !.primary = "PASSWORD"]
             l == [facts EXCEPT !.pc = "issue"]
  <1>1. call[c] \in CallRecord /\ call[c].mfa = call[c].enabled
    BY DEF Change, Inv, CallInv, LocalInv, CallRecord
  <1>2. l \in CallRecord /\ l.pc = "issue" /\ l.mfa = l.enabled
    BY <1>1 DEF CallRecord, Primary
  <1>3. LocalInv(l, link', challenge')
    BY <1>2 DEF LocalInv
  <1>4. call' = [call EXCEPT ![c] = l] /\ UNCHANGED <<link, challenge>>
    BY DEF Change, Proceeds, factorVars
  <1>5. CallInv'
    BY <1>2, <1>3, <1>4, NothingMailed, CallStep
  <1>6. SessionInv'
    BY SessionsRevoked DEF Change, ReplacePassword
  <1>7. RowsInv'
    BY SessionsAssumption DEF Change, ReplacePassword, Inv, RowsInv, factorVars
  <1> QED
    BY <1>5, <1>6, <1>7, SessionStep DEF Change

LEMMA InvalidateInv ==
  ASSUME Inv, NEW s \in Sessions, Invalidate(s) \/ Terminate(s), UNCHANGED factorVars
  PROVE  Inv'
  <1>1. /\ session' = [session EXCEPT ![s] = Revoked]
        /\ UNCHANGED <<composed, user, password, mfa, link, call, factorVars>>
    BY DEF Invalidate, Terminate
  <1>2. SessionInv'
    BY <1>1, RevokedType, SessionStored
  <1>3. CallInv'
    BY <1>1, NothingMailed, CallsWait DEF factorVars
  <1> QED
    BY <1>1, <1>2, <1>3, RowsKept, SessionStep DEF factorVars

LEMMA TimePassesInv ==
  ASSUME Inv, NEW s \in Sessions, FallDue(s) \/ GrowStale(s), UNCHANGED factorVars
  PROVE  Inv'
  <1>1. session \in [Sessions -> SessionRecord] /\ (Unrevoked(s) => session[s].since = password)
    BY DEF Inv, SessionInv, PasswordEndsSessions
  <1>2. /\ Unrevoked(s)
        /\ UNCHANGED <<composed, user, password, mfa, link, call, factorVars>>
    BY DEF FallDue, GrowStale, Unrevoked
  <1>3. PICK r \in SessionRecord : r.since = session[s].since /\ session' = [session EXCEPT ![s] = r]
    <2>1. CASE FallDue(s)
      <3> DEFINE r == [session[s] EXCEPT !.state = "due"]
      <3>1. r \in SessionRecord /\ r.since = session[s].since
        BY <1>1 DEF SessionRecord
      <3> QED
        BY <2>1, <3>1 DEF FallDue
    <2>2. CASE GrowStale(s)
      <3> DEFINE r == [session[s] EXCEPT !.recent = "stale"]
      <3>1. r \in SessionRecord /\ r.since = session[s].since
        BY <1>1 DEF SessionRecord
      <3> QED
        BY <2>2, <3>1 DEF GrowStale
    <2> QED
      BY <2>1, <2>2
  <1>4. SessionInv'
    BY <1>1, <1>2, <1>3, SessionStored
  <1>5. CallInv'
    BY <1>2, NothingMailed, CallsWait DEF factorVars
  <1> QED
    BY <1>2, <1>4, <1>5, RowsKept, SessionStep DEF factorVars

LEMMA AdministrateInv ==
  ASSUME Inv, NEW kept, Administrate(kept), UNCHANGED factorVars
  PROVE  Inv'
  <1>1. session \in [Sessions -> SessionRecord] /\ PasswordEndsSessions
    BY DEF Inv, SessionInv
  <1>2. SessionInv'
    BY <1>1, RevokeAllType DEF Administrate, SessionInv, PasswordEndsSessions, Unrevoked
  <1>3. CallInv'
    BY NothingMailed, CallsWait DEF Administrate, factorVars
  <1> QED
    BY <1>2, <1>3, RowsKept, SessionStep DEF Administrate, factorVars

LEMMA ReviewInv ==
  ASSUME Inv, NEW status \in {"active", "suspended", "closed"}, Review(status), UNCHANGED factorVars
  PROVE  Inv'
  <1>1. RowsInv'
    BY DEF Review, Inv, RowsInv, factorVars
  <1>2. SessionInv'
    BY SessionsKept DEF Review
  <1>3. CallInv'
    BY NothingMailed, CallsWait DEF Review, factorVars
  <1> QED
    BY <1>1, <1>2, <1>3, SessionStep DEF Review, factorVars

----------------------------------------------------------------------------
(* Mailed links.                                                            *)

\* A step on links, sessions, the user and the calls only.
LEMMA LinkStep ==
  ASSUME Inv, RowsInv', SessionInv', LinkInv', CallInv', UNCHANGED factorVars
  PROVE  Inv'
  BY DEF Inv, ChallengeInv, RecoveryInv, factorVars

LEMMA LinkMailed ==
  ASSUME Inv, NEW kind \in {"RESET", "MAGIC", "VERIFY"}, Mailed(link, kind)
  PROVE  LinkInv' /\ LinksKept({})
  <1>1. PICK k \in Links : /\ link[k].state = "none"
                           /\ link' = [link EXCEPT ![k] = [state |-> "pending", kind |-> kind, uses |-> 0]]
    BY DEF Mailed
  <1>2. [state |-> "pending", kind |-> kind, uses |-> 0] \in LinkRecord
    BY DEF LinkRecord
  <1>3. LinkInv'
    BY <1>1, <1>2 DEF Inv, LinkInv
  <1>4. LinksKept({})
    BY <1>1 DEF LinksKept, Inv, LinkInv, CallInv, LocalInv
  <1> QED
    BY <1>3, <1>4

LEMMA LinkReplaced ==
  ASSUME Inv, NEW kind \in {"RESET", "MAGIC", "VERIFY"}, Mailed(Superseded(kind), kind),
         kind = "MAGIC" => \A k \in Links : ~Locked(k)
  PROVE  LinkInv' /\ LinksKept({})
  <1>1. PICK k \in Links :
           /\ link[k].state = "none"
           /\ link' = [Superseded(kind) EXCEPT ![k] = [state |-> "pending", kind |-> kind, uses |-> 0]]
    BY DEF Mailed
  <1>2. [state |-> "pending", kind |-> kind, uses |-> 0] \in LinkRecord
    BY DEF LinkRecord
  <1>3. ASSUME NEW j \in Links
        PROVE  /\ [link[j] EXCEPT !.state = "used"] \in LinkRecord
               /\ [link[j] EXCEPT !.state = "used"].state = "used"
               /\ [link[j] EXCEPT !.state = "used"].kind = link[j].kind
               /\ [link[j] EXCEPT !.state = "used"].uses = link[j].uses
    BY DEF Inv, LinkInv, LinkRecord
  <1>4. LinkInv'
    BY <1>1, <1>2, <1>3 DEF Inv, LinkInv, Superseded
  <1>5. ASSUME NEW j \in Links, link[j].state # "none"
        PROVE  link'[j].state # "none" /\ link'[j].kind = link[j].kind
    BY <1>1, <1>3, <1>5 DEF Superseded
  <1>6. ASSUME NEW d \in Calls, call[d].pc = "magic"
        PROVE  link'[call[d].row].state \in {"pending", "lapsed"}
    <2>1. /\ call[d].row \in Links /\ link[call[d].row].state \in {"pending", "lapsed"}
          /\ link[call[d].row].kind = "MAGIC" /\ Locked(call[d].row)
      BY <1>6 DEF Inv, CallInv, LocalInv, Locked
    <2>2. kind # "MAGIC"
      BY <2>1
    <2> QED
      BY <1>1, <2>1, <2>2 DEF Superseded
  <1> QED
    BY <1>4, <1>5, <1>6 DEF LinksKept

LEMMA UsedRow ==
  ASSUME NEW row \in LinkRecord, NEW r, r = [row EXCEPT !.state = "used", !.uses = 1]
  PROVE  r \in LinkRecord /\ r.state = "used" /\ r.kind = row.kind /\ r.uses = 1
  BY DEF LinkRecord

LEMMA LinkUsed ==
  ASSUME Inv, NEW C, NEW k \in Links, Unused(k), link' = Used(link, k),
         \A d \in Calls \ C : call[d].pc = "magic" => call[d].row # k
  PROVE  LinkInv' /\ LinksKept(C)
  <1> DEFINE r == [link[k] EXCEPT !.state = "used", !.uses = 1]
  <1>1. link \in [Links -> LinkRecord] /\ link[k] \in LinkRecord /\ link[k].uses = 0
    BY DEF Inv, LinkInv, Unused
  <1>2. r \in LinkRecord /\ r.state = "used" /\ r.kind = link[k].kind /\ r.uses = 1
    BY <1>1, UsedRow
  <1>3. link' = [link EXCEPT ![k] = r]
    BY <1>1 DEF Used, LinkRecord
  <1> HIDE DEF r
  <1>4. LinkInv'
    BY <1>1, <1>2, <1>3 DEF Inv, LinkInv
  <1>5. LinksKept(C)
    BY <1>1, <1>2, <1>3 DEF LinksKept, Inv, CallInv, LocalInv
  <1> QED
    BY <1>4, <1>5

LEMMA MailInv ==
  ASSUME Inv, UNCHANGED factorVars,
         MailReset \/ (\E c \in Calls : MailMagic(c) \/ MailVerification(c))
  PROVE  Inv'
  <1>1. UNCHANGED <<composed, user, password, mfa, session>>
    BY DEF MailReset, MailMagic, MailVerification
  <1>2. LinkInv' /\ LinksKept({})
    BY LinkMailed, LinkReplaced DEF MailReset, MailMagic, MailVerification
  <1>3. ChallengesKept
    BY DEF ChallengesKept, factorVars
  <1>4. CallInv'
    <2>1. CASE UNCHANGED call
      BY <2>1, <1>2, <1>3, CallsWait
    <2>2. ASSUME NEW c \in Calls, Ends(c) PROVE CallInv'
      <3>1. LinksKept({c})
        BY <1>2 DEF LinksKept
      <3> QED
        BY <2>2, <3>1, <1>3, CallEnds
    <2> QED
      BY <2>1, <2>2 DEF MailReset, MailMagic, MailVerification
  <1> QED
    BY <1>1, <1>2, <1>4, RowsKept, SessionsKept, LinkStep DEF factorVars

LEMMA LapseInv ==
  ASSUME Inv, NEW k \in Links, Lapse(k), UNCHANGED factorVars
  PROVE  Inv'
  <1> DEFINE r == [link[k] EXCEPT !.state = "lapsed"]
  <1>1. link \in [Links -> LinkRecord] /\ link[k].state = "pending" /\ link[k].uses = 0
    BY DEF Inv, LinkInv, Lapse
  <1>2. r \in LinkRecord /\ r.state = "lapsed" /\ r.kind = link[k].kind /\ r.uses = 0
    BY <1>1 DEF LinkRecord
  <1>3. link' = [link EXCEPT ![k] = r] /\ UNCHANGED <<composed, user, password, mfa, session, call>>
    BY DEF Lapse
  <1> HIDE DEF r
  <1>4. LinkInv' /\ LinksKept({})
    BY <1>1, <1>2, <1>3 DEF Inv, LinkInv, LinksKept, CallInv, LocalInv
  <1>5. ChallengesKept
    BY DEF ChallengesKept, factorVars
  <1> QED
    BY <1>3, <1>4, <1>5, CallsWait, RowsKept, SessionsKept, LinkStep DEF factorVars

LEMMA ResetInv ==
  ASSUME Inv, NEW c \in Calls, Reset(c), UNCHANGED factorVars
  PROVE  Inv'
  <1> DEFINE k == call[c].row
  <1>1. k \in Links /\ link[k].kind = "RESET"
    BY DEF Reset, Inv, CallInv, LocalInv
  <1>2. ChallengesKept
    BY DEF ChallengesKept, factorVars
  <1>3. CASE UNCHANGED <<password, session, link>>
    BY <1>2, <1>3, NothingMailed, CallEnds, RowsKept, SessionsKept, SessionStep DEF Reset, factorVars
  <1>4. CASE StillUnused(k) /\ ReplacePassword /\ link' = Used(link, k)
    <2>1. \A d \in Calls : call[d].pc = "magic" => call[d].row # k
      BY <1>1 DEF Inv, CallInv, LocalInv
    <2>2. LinkInv' /\ LinksKept({c})
      BY <1>1, <1>4, <2>1, LinkUsed DEF StillUnused
    <2>3. CallInv'
      BY <2>2, <1>2, CallEnds DEF Reset
    <2>4. RowsInv'
      BY <1>4, SessionsAssumption DEF Reset, ReplacePassword, Inv, RowsInv, factorVars
    <2> QED
      BY <1>4, <2>2, <2>3, <2>4, SessionsRevoked, LinkStep DEF ReplacePassword
  <1> QED
    BY <1>3, <1>4 DEF Reset

LEMMA MagicInv ==
  ASSUME Inv, NEW c \in Calls, Magic(c), UNCHANGED factorVars
  PROVE  Inv'
  <1> DEFINE k == call[c].row
  <1>1. k \in Links /\ Unused(k)
    BY DEF Magic, Inv, CallInv, LocalInv, Unused
  <1>2. \A d \in Calls \ {c} : call[d].pc = "magic" => call[d].row # k
    BY DEF Magic, Inv, CallInv, LockInv
  <1>3. LinkInv' /\ LinksKept({c})
    BY <1>1, <1>2, LinkUsed DEF Magic
  <1>4. ChallengesKept
    BY DEF ChallengesKept, factorVars
  <1>5. CallInv'
    BY <1>3, <1>4, CallEnds DEF Magic
  <1>6. SessionInv'
    <2>1. PICK s \in Sessions :
             session' = [session EXCEPT ![s] =
                Issued("MAGIC_LINK", FALSE, password, call[c].enabled # Enabled)]
      BY DEF Magic
    <2>2. password \in 0 .. MaxPassword
      BY SessionsAssumption DEF Inv, RowsInv
    <2> QED
      BY <2>1, <2>2, IssuedType, SessionStored DEF Magic, Primary
  <1> QED
    BY <1>3, <1>5, <1>6, RowsKept, LinkStep DEF Magic, factorVars

LEMMA VerifyEmailInv ==
  ASSUME Inv, NEW k \in Links, VerifyEmail(k), UNCHANGED factorVars
  PROVE  Inv'
  <1>1. \A d \in Calls : call[d].pc = "magic" => call[d].row # k
    BY DEF VerifyEmail, Pending, Inv, CallInv, LocalInv
  <1>2. LinkInv' /\ LinksKept({})
    BY <1>1, LinkUsed DEF VerifyEmail, Pending, Unused
  <1>3. ChallengesKept
    BY DEF ChallengesKept, factorVars
  <1>4. RowsInv'
    BY DEF VerifyEmail, Inv, RowsInv, factorVars
  <1> QED
    BY <1>2, <1>3, <1>4, CallsWait, SessionsKept, LinkStep DEF VerifyEmail, factorVars

----------------------------------------------------------------------------
(* Challenges and recovery codes.                                           *)

LEMMA LinksStay ==
  ASSUME Inv, NEW C, UNCHANGED link
  PROVE  LinksKept(C) /\ LinkInv'
  BY DEF LinksKept, Inv, LinkInv, CallInv, LocalInv

\* A step that leaves the mailed links alone.
LEMMA FactorStep ==
  ASSUME Inv, RowsInv', SessionInv', ChallengeInv', RecoveryInv', CallInv', UNCHANGED link
  PROVE  Inv'
  BY LinksStay DEF Inv

LEMMA RecoveryKept ==
  ASSUME Inv, UNCHANGED recovery
  PROVE  RecoveryInv'
  BY DEF Inv, RecoveryInv

DeletedRow == [NoChallenge EXCEPT !.state = "deleted"]

LEMMA DeletedRowType ==
  /\ DeletedRow \in ChallengeRecord /\ DeletedRow.state = "deleted"
  /\ DeletedRow.purpose = "LOGIN" /\ DeletedRow.uses = 0
  <1>1. 0 \in 0 .. MaxAttempts
    BY FactorsAssumption
  <1> QED
    BY <1>1 DEF DeletedRow, NoChallenge, ChallengeRecord

NewRow(purpose, primary, s, raced) ==
    [NoChallenge EXCEPT !.state = "pending", !.purpose = purpose, !.primary = primary,
                        !.session = s, !.raced = raced]

LEMMA NewRowType ==
  ASSUME NEW purpose \in {"LOGIN", "ENROLLMENT", "RECENT_AUTH"},
         NEW primary \in {"PASSWORD", "GOOGLE_OIDC"}, NEW s \in Sessions \cup {Null},
         NEW raced \in BOOLEAN, NEW row, row = NewRow(purpose, primary, s, raced)
  PROVE  /\ row \in ChallengeRecord /\ row.state = "pending" /\ row.purpose = purpose
         /\ row.primary = primary /\ row.session = s /\ row.uses = 0
  <1>1. 0 \in 0 .. MaxAttempts
    BY FactorsAssumption
  <1> QED
    BY <1>1 DEF NewRow, NoChallenge, ChallengeRecord

LEMMA ChallengeReplaced ==
  ASSUME Inv, NEW purpose \in {"LOGIN", "ENROLLMENT", "RECENT_AUTH"},
         NEW primary \in {"PASSWORD", "GOOGLE_OIDC"}, NEW s \in Sessions \cup {Null},
         NEW raced \in BOOLEAN, Replaced(purpose, primary, s, raced),
         purpose = "RECENT_AUTH" /\ primary = "GOOGLE_OIDC" => s \in Sessions
  PROVE  ChallengeInv' /\ ChallengesKept
  <1> DEFINE row == NewRow(purpose, primary, s, raced)
  <1>1. PICK k \in Challenges, chosen \in SUBSET Challenges :
           /\ challenge[k].state = "none"
           /\ challenge' = [Deleted(chosen) EXCEPT ![k] = row]
    BY DEF Replaced, NewRow
  <1>2. /\ row \in ChallengeRecord /\ row.state = "pending" /\ row.purpose = purpose
        /\ row.primary = primary /\ row.session = s /\ row.uses = 0
    BY NewRowType
  <1> HIDE DEF row
  <1>3. Deleted(chosen) = [j \in Challenges |-> IF j \in chosen THEN DeletedRow ELSE challenge[j]]
    BY DEF Deleted, DeletedRow
  <1>4. ChallengeInv'
    BY <1>1, <1>2, <1>3, DeletedRowType DEF Inv, ChallengeInv
  <1>5. ChallengesKept
    BY <1>1, <1>3, DeletedRowType DEF Inv, ChallengeInv, ChallengesKept
  <1> QED
    BY <1>4, <1>5

LEMMA ChallengesDeleted ==
  ASSUME Inv, challenge' = AllDeleted
  PROVE  ChallengeInv' /\ ChallengesKept
  <1>1. challenge' = [j \in Challenges |-> IF challenge[j].state # "none" THEN DeletedRow
                                           ELSE challenge[j]]
    BY DEF AllDeleted, Deleted, DeletedRow
  <1> QED
    BY <1>1, DeletedRowType DEF Inv, ChallengeInv, ChallengesKept

ConsumedRow(row, by) == [row EXCEPT !.state = "used", !.by = by, !.uses = 1]

LEMMA ConsumedRowType ==
  ASSUME NEW row \in ChallengeRecord, NEW by \in Sessions \cup {Null}, NEW r,
         r = ConsumedRow(row, by)
  PROVE  /\ r \in ChallengeRecord /\ r.state = "used" /\ r.by = by /\ r.uses = 1
         /\ r.purpose = row.purpose /\ r.primary = row.primary /\ r.session = row.session
         /\ r.attempts = row.attempts /\ r.raced = row.raced
  BY DEF ConsumedRow, ChallengeRecord

LEMMA ChallengeConsumed ==
  ASSUME Inv, NEW k \in Challenges, NEW by \in Sessions \cup {Null}, Consumable(k), Consumed(k, by),
         challenge[k].purpose = "RECENT_AUTH" /\ challenge[k].primary = "GOOGLE_OIDC"
            => by = challenge[k].session
  PROVE  ChallengeInv' /\ ChallengesKept
  <1> DEFINE r == ConsumedRow(challenge[k], by)
  <1>1. /\ challenge \in [Challenges -> ChallengeRecord] /\ challenge[k] \in ChallengeRecord
        /\ challenge[k].uses = 0 /\ challenge[k].attempts < MaxAttempts
        /\ challenge[k].state # "none"
    BY DEF Inv, ChallengeInv, Consumable, Unconsumed, AttemptsLeft
  <1>2. /\ r \in ChallengeRecord /\ r.state = "used" /\ r.by = by /\ r.uses = 1
        /\ r.purpose = challenge[k].purpose /\ r.primary = challenge[k].primary
        /\ r.session = challenge[k].session /\ r.attempts = challenge[k].attempts
    BY <1>1, ConsumedRowType
  <1>3. challenge' = [challenge EXCEPT ![k] = r]
    BY <1>1 DEF Consumed, ConsumedRow, ChallengeRecord
  <1> HIDE DEF r
  <1>4. ChallengeInv'
    BY <1>1, <1>2, <1>3 DEF Inv, ChallengeInv
  <1>5. ChallengesKept
    BY <1>1, <1>2, <1>3 DEF ChallengesKept
  <1> QED
    BY <1>4, <1>5

LEMMA RecoverySpent ==
  ASSUME Inv, NEW code, CodeStands(code), recovery' = Spent(code)
  PROVE  RecoveryInv'
  <1>1. CASE code = 0
    BY <1>1 DEF Spent, Inv, RecoveryInv
  <1>2. CASE code # 0
    <2>1. recovery.unused /\ recovery.uses = 0
      BY <1>2 DEF CodeStands, Inv, RecoveryInv
    <2>2. recovery' = [recovery EXCEPT !.unused = FALSE, !.uses = 1]
      BY <1>2, <2>1 DEF Spent, Inv, RecoveryInv
    <2> QED
      BY <2>2 DEF Inv, RecoveryInv
  <1> QED
    BY <1>1, <1>2

LEMMA RecoveryRenewed ==
  ASSUME Inv, NewSet
  PROVE  RecoveryInv'
  <1>1. recovery.set + 1 \in 1 .. MaxSets
    BY FactorsAssumption DEF NewSet, Inv, RecoveryInv
  <1> QED
    BY <1>1 DEF NewSet, RecoveryInv

----------------------------------------------------------------------------
(* Login with a second factor.                                              *)

\* The steps that present a challenge with a code.
LEMMA PresentsStep ==
  ASSUME Inv, NEW c \in Calls, NEW k \in Challenges, NEW purpose,
         NEW code, NEW facts \in CallRecord,
         NEW pc \in {"verify", "complete", "recent"},
         Presentable(k, purpose), Presents(c, k, code, facts, pc),
         pc # "recent" => purpose # "RECENT_AUTH",
         pc = "recent" => facts.primary # "MAGIC_LINK" /\ facts.session \in Sessions,
         UNCHANGED <<composed, user, password, mfa, session, link, factorVars>>
  PROVE  Inv'
  <1> DEFINE next == IF Accepts(code) THEN pc ELSE "wrong"
             given == IF code = "recovery" THEN recovery.set ELSE 0
             found == [facts EXCEPT !.row = k, !.code = given]
             l == [found EXCEPT !.pc = next]
  <1>1. given \in Nat /\ next \in {pc, "wrong"}
    BY FactorsAssumption DEF Inv, RecoveryInv
  <1>2. call' = [call EXCEPT ![c] = l]
    BY DEF Presents, Proceeds
  <1> HIDE DEF next, given
  <1>3. /\ l \in CallRecord /\ l.pc = next /\ l.row = k
        /\ l.primary = facts.primary /\ l.session = facts.session
    BY <1>1 DEF CallRecord
  <1> HIDE DEF l
  <1>4. LocalInv(l, link, challenge) /\ l.pc # "magic"
    BY <1>1, <1>3 DEF LocalInv, Presentable
  <1> QED
    BY <1>2, <1>3, <1>4, LocalStep

LEMMA CountAttemptInv ==
  ASSUME Inv, NEW c \in Calls, CountAttempt(c)
  PROVE  Inv'
  <1> DEFINE k == call[c].row
             r == [challenge[k] EXCEPT !.attempts = @ + 1]
  <1>1. /\ k \in Challenges /\ challenge \in [Challenges -> ChallengeRecord]
        /\ challenge[k] \in ChallengeRecord
    BY DEF CountAttempt, Inv, CallInv, LocalInv, ChallengeInv
  <1>2. ChallengeInv' /\ ChallengesKept
    <2>1. CASE UNCHANGED challenge
      BY <2>1 DEF Inv, ChallengeInv, ChallengesKept
    <2>2. CASE Unconsumed(k) /\ AttemptsLeft(k) /\ challenge' = [challenge EXCEPT ![k] = r]
      <3>1. challenge[k].attempts + 1 \in 0 .. MaxAttempts
        BY <1>1, <2>2, FactorsAssumption DEF AttemptsLeft, ChallengeRecord
      <3>2. /\ r \in ChallengeRecord /\ r.state = challenge[k].state /\ r.uses = challenge[k].uses
            /\ r.purpose = challenge[k].purpose /\ r.primary = challenge[k].primary
            /\ r.session = challenge[k].session /\ r.by = challenge[k].by
        BY <1>1, <3>1 DEF ChallengeRecord
      <3>3. challenge[k].state # "used" /\ challenge[k].state # "none"
        BY <2>2 DEF Unconsumed
      <3> HIDE DEF r, k
      <3> QED
        BY <1>1, <2>2, <3>2, <3>3 DEF Inv, ChallengeInv, ChallengesKept
    <2> QED
      BY <1>1, <2>1, <2>2 DEF CountAttempt
  <1>3. CallInv'
    BY <1>2, LinksStay, CallEnds DEF CountAttempt
  <1> QED
    BY <1>2, <1>3, RowsKept, SessionsKept, RecoveryKept, FactorStep DEF CountAttempt

LEMMA RequireFactorInv ==
  ASSUME Inv, NEW c \in Calls, RequireFactor(c)
  PROVE  Inv'
  <1> DEFINE l == [call[c] EXCEPT !.pc = "send"]
  <1>1. call[c] \in CallRecord /\ call[c].primary # "MAGIC_LINK"
    BY DEF RequireFactor, Inv, CallInv, LocalInv
  <1>2. l \in CallRecord /\ l.pc = "send" /\ l.primary = call[c].primary
    BY <1>1 DEF CallRecord
  <1>3. LocalInv(l, link, challenge) /\ LocalInv(IdleCall, link, challenge) /\ IdleCall.pc = "idle"
    BY <1>1, <1>2 DEF LocalInv, IdleCall
  <1>4. call' = [call EXCEPT ![c] = l] \/ call' = [call EXCEPT ![c] = IdleCall]
    BY DEF RequireFactor, Proceeds, Ends
  <1> QED
    BY <1>2, <1>3, <1>4, IdleType, LocalStep DEF RequireFactor

LEMMA SendLoginChallengeInv ==
  ASSUME Inv, NEW c \in Calls, SendLoginChallenge(c)
  PROVE  Inv'
  <1>1. call[c].primary \in {"PASSWORD", "GOOGLE_OIDC"}
    BY DEF SendLoginChallenge, Inv, CallInv, LocalInv, CallRecord, Primary
  <1>2. (~Enabled) \in BOOLEAN /\ Null \in Sessions \cup {Null}
    OBVIOUS
  <1>3. ChallengeInv' /\ ChallengesKept
    BY <1>1, <1>2, ChallengeReplaced DEF SendLoginChallenge
  <1>4. CallInv'
    BY <1>3, LinksStay, CallEnds DEF SendLoginChallenge
  <1> QED
    BY <1>3, <1>4, RowsKept, SessionsKept, RecoveryKept, FactorStep DEF SendLoginChallenge

LEMMA ReissueInv ==
  ASSUME Inv, NEW c \in Calls, NEW k \in Challenges, Reissue(c, k)
  PROVE  Inv'
  <1> DEFINE facts == [IdleCall EXCEPT !.primary = challenge[k].primary]
             l == [facts EXCEPT !.pc = "challenge"]
  <1>1. challenge[k].primary \in {"PASSWORD", "GOOGLE_OIDC"}
    BY DEF Inv, ChallengeInv, ChallengeRecord
  <1>2. l \in CallRecord /\ l.pc = "challenge" /\ l.primary = challenge[k].primary
    BY <1>1, IdleType DEF CallRecord, Primary
  <1>3. LocalInv(l, link, challenge)
    BY <1>1, <1>2 DEF LocalInv
  <1> QED
    BY <1>2, <1>3, LocalStep DEF Reissue, Proceeds

LEMMA StartVerifyInv ==
  ASSUME Inv, NEW c \in Calls, NEW k \in Challenges, NEW code, StartVerify(c, k, code)
  PROVE  Inv'
  <1> DEFINE facts == [IdleCall EXCEPT !.primary = challenge[k].primary]
  <1>1. challenge[k].primary \in {"PASSWORD", "GOOGLE_OIDC"}
    BY DEF Inv, ChallengeInv, ChallengeRecord
  <1>2. facts \in CallRecord
    BY <1>1, IdleType DEF CallRecord, Primary
  <1>3. Presentable(k, "LOGIN") /\ Presents(c, k, code, facts, "verify")
    BY DEF StartVerify
  <1> HIDE DEF facts
  <1> QED
    BY <1>2, <1>3, PresentsStep DEF StartVerify

LEMMA VerifyInv ==
  ASSUME Inv, NEW c \in Calls, Verify(c)
  PROVE  Inv'
  <1> DEFINE k == call[c].row
             facts == [call[c] EXCEPT !.mfa = TRUE, !.enabled = TRUE, !.raced = challenge[k].raced]
             l == [facts EXCEPT !.pc = "issue"]
  <1>1. /\ k \in Challenges /\ challenge[k].purpose # "RECENT_AUTH" /\ call[c] \in CallRecord
        /\ challenge[k].raced \in BOOLEAN
    BY DEF Verify, Inv, CallInv, LocalInv, ChallengeInv, ChallengeRecord
  <1>2. CASE Consumable(k) /\ CodeStands(call[c].code)
    <2>1. Consumed(k, Null) /\ recovery' = Spent(call[c].code) /\ call' = [call EXCEPT ![c] = l]
      BY <1>2 DEF Verify, Proceeds
    <2>2. ChallengeInv' /\ ChallengesKept
      BY <1>1, <1>2, <2>1, ChallengeConsumed
    <2>3. RecoveryInv'
      BY <1>2, <2>1, RecoverySpent
    <2>4. l \in CallRecord /\ l.pc = "issue" /\ l.mfa = TRUE /\ l.enabled = TRUE
      BY <1>1 DEF CallRecord
    <2>5. LocalInv(l, link', challenge')
      BY <2>4 DEF LocalInv
    <2>6. CallInv'
      BY <2>1, <2>2, <2>4, <2>5, LinksStay, CallStep DEF Verify
    <2> QED
      BY <2>2, <2>3, <2>6, RowsKept, SessionsKept, FactorStep DEF Verify
  <1>3. CASE ~(Consumable(k) /\ CodeStands(call[c].code))
    <2>1. UNCHANGED <<challenge, recovery>> /\ Ends(c)
      BY <1>3 DEF Verify
    <2>2. CallInv'
      BY <2>1, NothingMailed, CallEnds DEF Verify
    <2> QED
      BY <2>1, <2>2, RowsKept, SessionsKept, SessionStep DEF Verify, factorVars
  <1> QED
    BY <1>2, <1>3

----------------------------------------------------------------------------
(* Enrollment.                                                              *)

LEMMA ReadMethodInv ==
  ASSUME Inv, NEW c \in Calls, ReadMethod(c) \/ AskRecentChallenge(c)
  PROVE  Inv'
  <1>1. PICK pc \in {"enroll", "sendRecent"} : Proceeds(c, pc, IdleCall)
    BY DEF ReadMethod, AskRecentChallenge
  <1> DEFINE l == [IdleCall EXCEPT !.pc = pc]
  <1>2. l \in CallRecord /\ l.pc = pc /\ l.primary = "PASSWORD" /\ l.session = Null
    BY <1>1, IdleType DEF CallRecord, IdleCall
  <1>3. LocalInv(l, link, challenge)
    BY <1>1, <1>2 DEF LocalInv
  <1>4. UNCHANGED <<composed, user, password, mfa, session, link, factorVars>>
    BY DEF ReadMethod, AskRecentChallenge
  <1> QED
    BY <1>1, <1>2, <1>3, <1>4, LocalStep DEF Proceeds

LEMMA StartEnrollmentInv ==
  ASSUME Inv, NEW c \in Calls, StartEnrollment(c)
  PROVE  Inv'
  <1>1. Null \in Sessions \cup {Null}
    OBVIOUS
  <1>2. ChallengeInv' /\ ChallengesKept
    BY <1>1, ChallengeReplaced DEF StartEnrollment
  <1>3. CallInv'
    BY <1>2, LinksStay, CallEnds DEF StartEnrollment
  <1>4. RowsInv'
    BY DEF StartEnrollment, Inv, RowsInv
  <1> QED
    BY <1>2, <1>3, <1>4, SessionsKept, RecoveryKept, FactorStep DEF StartEnrollment

LEMMA StartCompletionInv ==
  ASSUME Inv, NEW c \in Calls, NEW k \in Challenges, NEW code, StartCompletion(c, k, code)
  PROVE  Inv'
  BY IdleType, PresentsStep DEF StartCompletion

LEMMA CompleteEnrollmentInv ==
  ASSUME Inv, NEW c \in Calls, CompleteEnrollment(c)
  PROVE  Inv'
  <1> DEFINE k == call[c].row
  <1>1. k \in Challenges /\ challenge[k].purpose # "RECENT_AUTH"
    BY DEF CompleteEnrollment, Inv, CallInv, LocalInv
  <1>2. CASE /\ Consumable(k) /\ Consumed(k, Null) /\ NewSet
             /\ mfa' = "enabled" /\ session' = RevokeAll
    <2>1. ChallengeInv' /\ ChallengesKept
      BY <1>1, <1>2, ChallengeConsumed
    <2>2. CallInv'
      BY <2>1, LinksStay, CallEnds DEF CompleteEnrollment
    <2>3. RowsInv'
      BY <1>2 DEF CompleteEnrollment, Inv, RowsInv
    <2> QED
      BY <1>2, <2>1, <2>2, <2>3, SessionsRevoked, RecoveryRenewed, FactorStep DEF CompleteEnrollment
  <1>3. CASE UNCHANGED <<challenge, recovery, mfa, session>>
    <2>1. CallInv'
      BY <1>3, NothingMailed, CallEnds DEF CompleteEnrollment
    <2> QED
      BY <1>3, <2>1, RowsKept, SessionsKept, SessionStep DEF CompleteEnrollment, factorVars
  <1> QED
    BY <1>2, <1>3 DEF CompleteEnrollment

LEMMA DisableInv ==
  ASSUME Inv, Disable
  PROVE  Inv'
  <1>1. ChallengeInv' /\ ChallengesKept
    BY ChallengesDeleted DEF Disable
  <1>2. CallInv'
    BY <1>1, LinksStay, CallsWait DEF Disable
  <1>3. RowsInv'
    BY DEF Disable, Inv, RowsInv
  <1>4. RecoveryInv'
    BY DEF Disable, Inv, RecoveryInv
  <1> QED
    BY <1>1, <1>2, <1>3, <1>4, SessionsRevoked, FactorStep DEF Disable

\* The steps that validate a session and proceed with its context.
LEMMA ContextStep ==
  ASSUME Inv, NEW c \in Calls, NEW s \in Sessions,
         NEW pc \in {"regenerate", "emergency", "sendRecent"},
         pc = "sendRecent" => Google(s), Proceeds(c, pc, Context(s)),
         UNCHANGED <<composed, user, password, mfa, session, link, factorVars>>
  PROVE  Inv'
  <1> DEFINE facts == Context(s)
             l == [facts EXCEPT !.pc = pc]
  <1>a. /\ facts \in CallRecord /\ facts.mfa = facts.enabled
        /\ facts.primary = session[s].primary /\ facts.session = s
    BY ContextType
  <1>b. call' = [call EXCEPT ![c] = l]
    BY DEF Proceeds
  <1> HIDE DEF facts
  <1>1. /\ l \in CallRecord /\ l.pc = pc /\ l.mfa = l.enabled
        /\ l.primary = session[s].primary /\ l.session = s
    BY <1>a DEF CallRecord
  <1>2. LocalInv(l, link, challenge)
    BY <1>1 DEF LocalInv, Google
  <1> HIDE DEF l
  <1> QED
    BY <1>b, <1>1, <1>2, LocalStep

LEMMA RegenerateInv ==
  ASSUME Inv, NEW c \in Calls, Regenerate(c)
  PROVE  Inv'
  <1> DEFINE facts == [call[c] EXCEPT !.primary = "PASSWORD"]
             l == [facts EXCEPT !.pc = "issue"]
  <1>1. call[c] \in CallRecord /\ call[c].mfa = call[c].enabled
    BY DEF Regenerate, Inv, CallInv, LocalInv, CallRecord
  <1>2. l \in CallRecord /\ l.pc = "issue" /\ l.mfa = l.enabled
    BY <1>1 DEF CallRecord, Primary
  <1>3. LocalInv(l, link', challenge')
    BY <1>2 DEF LocalInv
  <1>4. call' = [call EXCEPT ![c] = l] /\ UNCHANGED <<link, challenge>>
    BY DEF Regenerate, Proceeds
  <1>5. CallInv'
    BY <1>2, <1>3, <1>4, NothingMailed, CallStep
  <1>6. ChallengeInv'
    BY <1>4 DEF Inv, ChallengeInv
  <1> QED
    BY <1>5, <1>6, SessionsRevoked, RecoveryRenewed, RowsKept, FactorStep DEF Regenerate

EmergencySession(c) ==
    [Issued(call[c].primary, TRUE, password, FALSE) EXCEPT !.recent = "fresh"]

LEMMA EmergencySessionType ==
  ASSUME Inv, NEW c \in Calls
  PROVE  /\ EmergencySession(c) \in SessionRecord
         /\ EmergencySession(c).since = password
         /\ EmergencySession(c).verified = TRUE
  <1>1. call[c].primary \in Primary
    BY DEF Inv, CallInv, CallRecord
  <1>2. password \in 0 .. MaxPassword
    BY SessionsAssumption DEF Inv, RowsInv
  <1> DEFINE r == Issued(call[c].primary, TRUE, password, FALSE)
  <1>3. r \in SessionRecord /\ r.since = password /\ r.verified = TRUE
    BY <1>1, <1>2, IssuedType
  <1>4. EmergencySession(c) = [r EXCEPT !.recent = "fresh"]
    BY DEF EmergencySession
  <1> HIDE DEF r
  <1> QED
    BY <1>3, <1>4 DEF SessionRecord

\* What the emergency enrollment does when it finds its authorization open.
EmergencyRows(c) ==
    /\ authorization' = "consumed" /\ mfa' = "enabled"
    /\ NewSet
    /\ challenge' = AllDeleted
    /\ \E s \in Sessions : session' = [RevokeAll EXCEPT ![s] = EmergencySession(c)]

LEMMA EmergencyCases ==
  ASSUME NEW c, EmergencyEnroll(c)
  PROVE  EmergencyRows(c) \/ UNCHANGED <<authorization, mfa, recovery, challenge, session>>
  BY DEF EmergencyEnroll, EmergencyRows, EmergencySession

LEMMA EmergencyEnrollInv ==
  ASSUME Inv, NEW c \in Calls, EmergencyEnroll(c)
  PROVE  Inv'
  <1>1. CASE EmergencyRows(c)
    <2>1. ChallengeInv' /\ ChallengesKept
      BY <1>1, ChallengesDeleted DEF EmergencyRows
    <2>2. CallInv'
      BY <2>1, LinksStay, CallEnds DEF EmergencyEnroll
    <2>3. RowsInv'
      BY <1>1 DEF EmergencyEnroll, EmergencyRows, Inv, RowsInv
    <2>4. SessionInv'
      BY <1>1, RevokeAllType, EmergencySessionType
         DEF EmergencyEnroll, EmergencyRows, SessionInv, PasswordEndsSessions, Unrevoked
    <2>5. RecoveryInv'
      BY <1>1, RecoveryRenewed DEF EmergencyRows
    <2> QED
      BY <2>1, <2>2, <2>3, <2>4, <2>5, FactorStep DEF EmergencyEnroll
  <1>2. CASE UNCHANGED <<authorization, mfa, recovery, challenge, session>>
    <2>1. CallInv'
      BY <1>2, NothingMailed, CallEnds DEF EmergencyEnroll
    <2> QED
      BY <1>2, <2>1, RowsKept, SessionsKept, SessionStep DEF EmergencyEnroll, factorVars
  <1> QED
    BY <1>1, <1>2, EmergencyCases

----------------------------------------------------------------------------
(* Recent authentication.                                                   *)

LEMMA SendRecentChallengeInv ==
  ASSUME Inv, NEW c \in Calls, SendRecentChallenge(c)
  PROVE  Inv'
  <1> DEFINE s == call[c].session
  <1>1. \/ call[c].primary = "GOOGLE_OIDC" /\ s \in Sessions
        \/ call[c].primary = "PASSWORD" /\ s = Null
    BY DEF SendRecentChallenge, Inv, CallInv, LocalInv
  <1>2. ChallengeInv' /\ ChallengesKept
    <2>1. CASE Replaced("RECENT_AUTH", call[c].primary, s, FALSE)
      BY <1>1, <2>1, ChallengeReplaced
    <2>2. CASE UNCHANGED challenge
      BY <2>2 DEF Inv, ChallengeInv, ChallengesKept
    <2> QED
      BY <2>1, <2>2 DEF SendRecentChallenge
  <1>3. CallInv'
    BY <1>2, LinksStay, CallEnds DEF SendRecentChallenge
  <1> QED
    BY <1>2, <1>3, RowsKept, SessionsKept, RecoveryKept, FactorStep DEF SendRecentChallenge

LEMMA StartRecentInv ==
  ASSUME Inv, NEW c \in Calls, NEW s \in Sessions, StartRecent(c, s)
  PROVE  Inv'
  <1> DEFINE primary == IF Google(s) THEN Context(s).primary ELSE "PASSWORD"
             pc == IF Google(s) \/ Enabled THEN "present" ELSE "upgrade"
             context == Context(s)
             facts == [context EXCEPT !.primary = primary]
             l == [facts EXCEPT !.pc = pc]
  <1>1. primary \in {"PASSWORD", "GOOGLE_OIDC"} /\ pc \in {"present", "upgrade"}
    BY ContextType DEF Google
  <1>x. context \in CallRecord /\ context.session = s
    BY ContextType
  <1>2. call' = [call EXCEPT ![c] = l]
    BY ContextType DEF StartRecent, Proceeds, CallRecord
  <1> HIDE DEF primary, pc, context
  <1>3. l \in CallRecord /\ l.pc = pc /\ l.primary = primary /\ l.session = s
    BY <1>1, <1>x DEF CallRecord, Primary
  <1> HIDE DEF l
  <1>4. LocalInv(l, link, challenge) /\ l.pc # "magic"
    BY <1>1, <1>3 DEF LocalInv
  <1> QED
    BY <1>2, <1>3, <1>4, LocalStep DEF StartRecent

LEMMA PresentRecentInv ==
  ASSUME Inv, NEW c \in Calls, NEW k \in Challenges, NEW code, PresentRecent(c, k, code)
  PROVE  Inv'
  <1>1. call[c] \in CallRecord /\ call[c].primary # "MAGIC_LINK" /\ call[c].session \in Sessions
    BY DEF PresentRecent, Inv, CallInv, LocalInv
  <1> QED
    BY <1>1, PresentsStep DEF PresentRecent

LEMMA UpgradeInv ==
  ASSUME Inv, NEW c \in Calls, Upgrade(c)
  PROVE  Inv'
  <1> DEFINE s == call[c].session
             r == [session[s] EXCEPT !.recent = "fresh"]
  <1>1. s \in Sessions /\ session \in [Sessions -> SessionRecord] /\ PasswordEndsSessions
    BY DEF Upgrade, Inv, CallInv, LocalInv, SessionInv
  <1>2. r \in SessionRecord /\ r.state = session[s].state /\ r.since = session[s].since
    BY <1>1 DEF SessionRecord
  <1>3. UNCHANGED session \/ session' = [session EXCEPT ![s] = r]
    BY <1>1 DEF Upgrade
  <1>4. UNCHANGED password
    BY DEF Upgrade
  <1> HIDE DEF r, s
  <1>5. SessionInv'
    BY <1>1, <1>2, <1>3, <1>4, SessionsKept, SessionStored DEF PasswordEndsSessions, Unrevoked
  <1>6. CallInv'
    BY NothingMailed, CallEnds DEF Upgrade, factorVars
  <1> QED
    BY <1>5, <1>6, RowsKept, SessionStep DEF Upgrade, factorVars

Raised(row, verified, primary) ==
    [row EXCEPT !.recent = "fresh", !.verified = verified, !.primary = primary]

LEMMA RaisedType ==
  ASSUME NEW row \in SessionRecord, NEW primary \in Primary, NEW verified \in BOOLEAN, NEW r,
         r = Raised(row, verified, primary)
  PROVE  /\ r \in SessionRecord /\ r.state = row.state /\ r.since = row.since
         /\ r.raced = row.raced /\ r.verified = verified
  BY DEF Raised, SessionRecord

\* What a recent authentication that succeeds does to the rows.
RecentRows(c, s, k) ==
    /\ Consumable(k) /\ Bound(k, call[c].primary, s) /\ CodeStands(call[c].code)
    /\ FactorStands(s, call[c].code)
    /\ Consumed(k, s)
    /\ recovery' = Spent(call[c].code)
    /\ session' = [session EXCEPT
          ![s] = Raised(session[s], session[s].verified \/ Enabled, call[c].primary)]

LEMMA RecentCases ==
  ASSUME Inv, NEW c \in Calls, CompleteRecent(c)
  PROVE  \/ RecentRows(c, call[c].session, call[c].row)
         \/ UNCHANGED <<challenge, recovery, session>>
  <1>1. call[c].session \in Sessions /\ session \in [Sessions -> SessionRecord]
    BY DEF CompleteRecent, Inv, CallInv, LocalInv, SessionInv
  <1> QED
    BY <1>1 DEF CompleteRecent, RecentRows, Raised

LEMMA CompleteRecentInv ==
  ASSUME Inv, NEW c \in Calls, CompleteRecent(c)
  PROVE  Inv'
  <1> DEFINE s == call[c].session
             k == call[c].row
             verified == session[s].verified \/ Enabled
             r == Raised(session[s], verified, call[c].primary)
  <1>1. s \in Sessions /\ k \in Challenges /\ call[c].primary \in Primary
    BY DEF CompleteRecent, Inv, CallInv, LocalInv, CallRecord
  <1>2. CASE RecentRows(c, s, k)
    <2>1. /\ session[s] \in SessionRecord /\ verified \in BOOLEAN
          /\ Unrevoked(s) => session[s].since = password
      BY <1>1 DEF Inv, SessionInv, PasswordEndsSessions, SessionRecord
    <2>2. session' = [session EXCEPT ![s] = r]
      BY <1>2 DEF RecentRows
    <2>3. r \in SessionRecord /\ r.state = session[s].state /\ r.since = session[s].since
      <3> HIDE DEF verified
      <3> QED
        BY <1>1, <2>1, RaisedType
    <2> HIDE DEF r
    <2>4. SessionInv'
      BY <1>1, <2>1, <2>2, <2>3, SessionStored DEF CompleteRecent, Unrevoked
    <2>5. challenge[k].session \in Sessions => challenge[k].session = s
      BY <1>2, SessionsAssumption DEF RecentRows, Bound
    <2>6. challenge[k].purpose = "RECENT_AUTH" /\ challenge[k].primary = "GOOGLE_OIDC"
             => s = challenge[k].session
      BY <1>1, <2>5 DEF Inv, ChallengeInv
    <2>7. ChallengeInv' /\ ChallengesKept
      BY <1>1, <1>2, <2>6, ChallengeConsumed DEF RecentRows
    <2>8. RecoveryInv'
      BY <1>2, RecoverySpent DEF RecentRows
    <2>9. CallInv'
      BY <2>7, LinksStay, CallEnds DEF CompleteRecent
    <2> QED
      BY <2>4, <2>7, <2>8, <2>9, RowsKept, FactorStep DEF CompleteRecent
  <1>3. CASE UNCHANGED <<challenge, recovery, session>>
    <2>1. CallInv'
      BY <1>3, NothingMailed, CallEnds DEF CompleteRecent
    <2> QED
      BY <1>3, <2>1, RowsKept, SessionsKept, SessionStep DEF CompleteRecent, factorVars
  <1> QED
    BY <1>2, <1>3, RecentCases

LEMMA LapseChallengeInv ==
  ASSUME Inv, NEW k \in Challenges, LapseChallenge(k)
  PROVE  Inv'
  <1> DEFINE r == [challenge[k] EXCEPT !.state = "lapsed"]
  <1>1. /\ challenge \in [Challenges -> ChallengeRecord] /\ challenge[k] \in ChallengeRecord
        /\ challenge[k].state = "pending" /\ challenge[k].uses = 0
    BY DEF LapseChallenge, Inv, ChallengeInv
  <1>2. /\ r \in ChallengeRecord /\ r.state = "lapsed" /\ r.uses = 0
        /\ r.purpose = challenge[k].purpose /\ r.primary = challenge[k].primary
        /\ r.session = challenge[k].session
    BY <1>1 DEF ChallengeRecord
  <1>3. challenge' = [challenge EXCEPT ![k] = r]
    BY DEF LapseChallenge
  <1> HIDE DEF r
  <1>4. ChallengeInv' /\ ChallengesKept
    BY <1>1, <1>2, <1>3 DEF Inv, ChallengeInv, ChallengesKept
  <1>5. CallInv'
    BY <1>4, LinksStay, CallsWait DEF LapseChallenge
  <1> QED
    BY <1>4, <1>5, RowsKept, SessionsKept, RecoveryKept, FactorStep DEF LapseChallenge

LEMMA WithdrawInv ==
  ASSUME Inv, Withdraw
  PROVE  Inv'
  <1>1. RowsInv' /\ ChallengeInv'
    BY DEF Withdraw, Inv, RowsInv, ChallengeInv
  <1>2. CallInv'
    BY NothingMailed, CallsWait DEF Withdraw
  <1> QED
    BY <1>1, <1>2, SessionsKept, RecoveryKept, FactorStep DEF Withdraw

----------------------------------------------------------------------------
(* The invariant.                                                           *)

LEMMA InitInv ==
  ASSUME FactorInit
  PROVE  Inv
  <1> USE DEF FactorInit, Init
  <1>1. /\ 0 \in 0 .. MaxPassword /\ 1 \in 1 .. MaxPassword
        /\ 0 \in 0 .. MaxAttempts /\ 1 \in 1 .. MaxSets
    BY SessionsAssumption, FactorsAssumption
  <1>2. RowsInv
    BY <1>1, SessionsAssumption DEF RowsInv
  <1>3. SessionInv
    BY <1>1 DEF SessionInv, SessionRecord, NoSession, Primary, PasswordEndsSessions, Unrevoked
  <1>4. LinkInv
    BY DEF LinkInv, LinkRecord, NoLink
  <1>5. ChallengeInv
    BY <1>1 DEF ChallengeInv, ChallengeRecord, NoChallenge
  <1>6. RecoveryInv
    BY <1>1, EnabledType DEF RecoveryInv
  <1>7. CallInv
    <2>1. IdleCall.pc = "idle"
      BY DEF IdleCall
    <2> QED
      BY <2>1, IdleType DEF CallInv, LocalInv, LockInv
  <1> QED
    BY <1>2, <1>3, <1>4, <1>5, <1>6, <1>7 DEF Inv

LEMMA SessionNextInv ==
  ASSUME Inv, SessionNext, UNCHANGED factorVars
  PROVE  Inv'
  BY IssueSessionInv, ProveCurrentInv, ChangeInv, ResetInv, MagicInv, AbandonInv, StartMailInv,
     MailInv, AuthenticateInv, StartChangeInv, StartResetInv, StartMagicInv, InvalidateInv,
     TimePassesInv, AdministrateInv, LapseInv, VerifyEmailInv, ReviewInv
     DEF SessionNext

LEMMA FactorNextInv ==
  ASSUME Inv, FactorNext
  PROVE  Inv'
  <1>1. ASSUME NEW c \in Calls, NEW s \in Sessions,
               StartRegeneration(c, s) \/ StartEmergency(c, s) \/ StartRecentChallenge(c, s)
        PROVE  Inv'
    BY <1>1, ContextStep DEF StartRegeneration, StartEmergency, StartRecentChallenge
  <1> QED
    BY <1>1, CountAttemptInv, RequireFactorInv, SendLoginChallengeInv, VerifyInv, ReadMethodInv,
       StartEnrollmentInv, CompleteEnrollmentInv, RegenerateInv, EmergencyEnrollInv,
       SendRecentChallengeInv, UpgradeInv, CompleteRecentInv, StartRecentInv, ReissueInv,
       StartVerifyInv, StartCompletionInv, PresentRecentInv, LapseChallengeInv, DisableInv,
       WithdrawInv
       DEF FactorNext

LEMMA StutterInv ==
  ASSUME Inv, UNCHANGED vars
  PROVE  Inv'
  <1>1. CallInv'
    BY NothingMailed, CallsWait DEF vars
  <1> QED
    BY <1>1, RowsKept, SessionsKept, SessionStep DEF vars, factorVars

THEOREM Invariance == Spec => []Inv
  <1>1. Inv /\ [Next]_vars => Inv'
    BY SessionNextInv, FactorNextInv, StutterInv DEF Next
  <1> QED
    BY <1>1, InitInv, PTL DEF Spec

----------------------------------------------------------------------------
(* The properties of the runs.                                              *)

LEMMA UsesRange == 0 .. 2 = {0, 1, 2}
  OBVIOUS

\* What the invariant says of the properties.
LEMMA Consequences ==
  ASSUME Inv
  PROVE  AttemptsRespected /\ PasswordEndsSessions /\ LinksWorkOnce /\ FactorsWorkOnce /\ ChallengeIsBound
  <1>1. SessionsTyped
    BY UsesRange DEF SessionsTyped, Inv, RowsInv, SessionInv, LinkInv, SessionRecord, LinkRecord, Primary
  <1>2. TypeOK
    BY <1>1, UsesRange DEF TypeOK, Inv, RowsInv, ChallengeInv, RecoveryInv, ChallengeRecord
  <1>3. AttemptsRespected
    BY <1>2 DEF AttemptsRespected, Inv, ChallengeInv
  <1>4. PasswordEndsSessions
    BY DEF Inv, SessionInv
  <1>5. LinksWorkOnce
    BY DEF LinksWorkOnce, Inv, LinkInv
  <1>6. FactorsWorkOnce
    BY DEF FactorsWorkOnce, Inv, ChallengeInv, RecoveryInv
  <1>7. ChallengeIsBound
    BY DEF ChallengeIsBound, Inv, ChallengeInv
  <1> QED
    BY <1>3, <1>4, <1>5, <1>6, <1>7

\* Types, and: no call consumes a challenge that has met its limit of wrong codes
\* (consumeChallenge and its siblings ask for the limit in their UPDATE).
THEOREM AttemptsRespectedCorrect == Spec => []AttemptsRespected
  BY Invariance, Consequences, PTL

\* Whatever calls are in progress, a change or reset of the password leaves no session
\* of the old one open.
THEOREM PasswordEndsSessionsCorrect == Spec => []PasswordEndsSessions
  BY Invariance, Consequences, PTL

\* A mailed link is used once, whether its use re-reads it under a lock or not.
THEOREM LinksWorkOnceCorrect == Spec => []LinksWorkOnce
  BY Invariance, Consequences, PTL

\* Of concurrent presentations of a challenge, or of a recovery code, one succeeds.
THEOREM FactorsWorkOnceCorrect == Spec => []FactorsWorkOnce
  BY Invariance, Consequences, PTL

\* A recent-authentication challenge of a Google session is consumed by that session.
THEOREM ChallengeIsBoundCorrect == Spec => []ChallengeIsBound
  BY Invariance, Consequences, PTL

----------------------------------------------------------------------------
(* Assurance, for a host that starts no enrollment while one is decided.    *)

Deciding == {"enroll", "complete", "emergency"}

\* Neither does the method change nor does a call begin to decide an enrollment.
Quiet ==
    /\ UNCHANGED mfa
    /\ \A d \in Calls : call'[d].pc \in Deciding => call[d].pc = call'[d].pc

LEMMA QuietOrder ==
  ASSUME OrderInv, Quiet
  PROVE  OrderInv'
  BY DEF OrderInv, Quiet, Deciding, Enabled

LEMMA QuietMoves ==
  ASSUME Inv, NEW c \in Calls, NEW facts, "pc" \in DOMAIN facts, NEW pc, pc \notin Deciding,
         Proceeds(c, pc, facts), UNCHANGED mfa
  PROVE  Quiet
  BY DEF Quiet, Proceeds, Inv, CallInv

LEMMA QuietEnds ==
  ASSUME Inv, NEW c \in Calls, Ends(c), UNCHANGED mfa
  PROVE  Quiet
  BY DEF Quiet, Deciding, Ends, IdleCall, Inv, CallInv

LEMMA QuietWaits ==
  ASSUME UNCHANGED <<call, mfa>>
  PROVE  Quiet
  BY DEF Quiet

LEMMA HasPc ==
  ASSUME Inv
  PROVE  /\ "pc" \in DOMAIN IdleCall
         /\ \A c \in Calls : "pc" \in DOMAIN call[c]
         /\ \A s \in Sessions : "pc" \in DOMAIN Context(s)
  BY ContextType DEF IdleCall, Inv, CallInv, CallRecord

\* No call starts to decide an enrollment, or decides one.
LEMMA SessionNextQuiet ==
  ASSUME Inv, SessionNext
  PROVE  Quiet
  <1>1. ASSUME NEW c \in Calls,
               IssueSession(c) \/ Reset(c) \/ Magic(c) \/ Abandon(c) \/ MailMagic(c) \/ MailVerification(c)
        PROVE  Quiet
    BY <1>1, QuietEnds DEF IssueSession, Reset, Magic, Abandon, MailMagic, MailVerification
  <1>2. ASSUME NEW c \in Calls, ProveCurrent(c) \/ Change(c)
        PROVE  Quiet
    <2>1. "pc" \in DOMAIN call[c] /\ "pc" \in DOMAIN [call[c] EXCEPT !.primary = "PASSWORD"]
      BY HasPc
    <2> QED
      BY <1>2, <2>1, QuietMoves DEF ProveCurrent, Change, Deciding
  <1>3. ASSUME NEW c \in Calls, StartMagicMail(c) \/ StartVerificationMail(c)
        PROVE  Quiet
    BY <1>3, HasPc, QuietMoves DEF StartMagicMail, StartVerificationMail, Deciding
  <1>4. ASSUME NEW c \in Calls, NEW primary, Authenticate(c, primary)
        PROVE  Quiet
    <2>1. Route \notin Deciding
      BY DEF Route, Deciding
    <2>2. "pc" \in DOMAIN [IdleCall EXCEPT !.primary = primary, !.enabled = Enabled]
      BY DEF IdleCall
    <2> QED
      BY <1>4, <2>1, <2>2, QuietMoves DEF Authenticate
  <1>5. ASSUME NEW c \in Calls, NEW s \in Sessions, StartChange(c, s)
        PROVE  Quiet
    BY <1>5, HasPc, QuietMoves DEF StartChange, Deciding
  <1>6. ASSUME NEW c \in Calls, NEW k \in Links, StartReset(c, k) \/ StartMagic(c, k)
        PROVE  Quiet
    <2>1. /\ "pc" \in DOMAIN [IdleCall EXCEPT !.row = k]
          /\ "pc" \in DOMAIN [IdleCall EXCEPT !.row = k, !.primary = "MAGIC_LINK", !.enabled = Enabled]
      BY DEF IdleCall
    <2>2. CASE StartReset(c, k)
      BY <2>1, <2>2, QuietMoves DEF StartReset, Deciding
    <2>3. CASE StartMagic(c, k)
      <3> DEFINE facts == [IdleCall EXCEPT !.row = k, !.primary = "MAGIC_LINK", !.enabled = Enabled]
      <3>1. Proceeds(c, "magic", facts) /\ UNCHANGED mfa
        BY <2>3 DEF StartMagic
      <3>2. "pc" \in DOMAIN facts
        BY <2>1
      <3> HIDE DEF facts
      <3> QED
        BY <3>1, <3>2, QuietMoves DEF Deciding
    <2> QED
      BY <1>6, <2>2, <2>3
  <1>7. CASE \/ \E s \in Sessions : Invalidate(s) \/ FallDue(s) \/ GrowStale(s) \/ Terminate(s)
             \/ \E kept \in {{}} \cup {{s} : s \in Sessions} : Administrate(kept)
             \/ MailReset
             \/ \E k \in Links : Lapse(k) \/ VerifyEmail(k)
             \/ \E status \in {"active", "suspended", "closed"} : Review(status)
    BY <1>7, QuietWaits
       DEF Invalidate, FallDue, GrowStale, Terminate, Administrate, MailReset, Lapse, VerifyEmail, Review
  <1> QED
    BY <1>1, <1>2, <1>3, <1>4, <1>5, <1>6, <1>7 DEF SessionNext

----------------------------------------------------------------------------
\* The sessions that stay open stay what they are.
SessionsAsTheyWere ==
    \A s \in Sessions : Unrevoked(s)' =>
        /\ Unrevoked(s)
        /\ session'[s].verified = session[s].verified /\ session'[s].raced = session[s].raced

LEMMA AssuranceStays ==
  ASSUME AssuranceIsTrue, SessionsAsTheyWere, UNCHANGED mfa
  PROVE  AssuranceIsTrue'
  BY DEF AssuranceIsTrue, SessionsAsTheyWere, Enabled

LEMMA SessionsUntouched ==
  ASSUME UNCHANGED session
  PROVE  SessionsAsTheyWere
  BY DEF SessionsAsTheyWere, Unrevoked

LEMMA AssuranceEnds ==
  ASSUME Inv, session' = RevokeAll
  PROVE  AssuranceIsTrue' /\ SessionsAsTheyWere
  BY RevokeAllType DEF AssuranceIsTrue, SessionsAsTheyWere, Unrevoked

\* A new session is one that AssuranceIsTrue allows.
LEMMA AssuranceIssued ==
  ASSUME Inv, AssuranceIsTrue, UNCHANGED mfa, NEW s \in Sessions, NEW primary \in Primary,
         NEW verified \in BOOLEAN, NEW raced \in BOOLEAN, raced \/ (verified <=> Enabled),
         session' = [session EXCEPT ![s] = Issued(primary, verified, password, raced)]
  PROVE  AssuranceIsTrue'
  <1> DEFINE r == Issued(primary, verified, password, raced)
  <1>1. password \in 0 .. MaxPassword
    BY SessionsAssumption DEF Inv, RowsInv
  <1>2. r.verified = verified /\ r.raced = raced
    BY <1>1, IssuedType
  <1>3. session' = [session EXCEPT ![s] = r]
    OBVIOUS
  <1> HIDE DEF r
  <1> QED
    BY <1>2, <1>3 DEF AssuranceIsTrue, Unrevoked, Enabled, Inv, SessionInv

LEMMA IssueSessionAssurance ==
  ASSUME Inv, AssuranceIsTrue, NEW c \in Calls, IssueSession(c)
  PROVE  AssuranceIsTrue'
  <1> DEFINE raced == call[c].raced \/ call[c].enabled # Enabled
  <1>1. CASE UNCHANGED session
    BY <1>1, SessionsUntouched, AssuranceStays DEF IssueSession
  <1>2. ASSUME NEW s \in Sessions,
               session' = [session EXCEPT ![s] =
                  Issued(call[c].primary, call[c].mfa, password, raced)]
        PROVE  AssuranceIsTrue'
    <2>1. /\ call[c].primary \in Primary /\ call[c].mfa \in BOOLEAN /\ call[c].enabled \in BOOLEAN
          /\ call[c].raced \/ (call[c].mfa <=> call[c].enabled)
      BY DEF IssueSession, Inv, CallInv, CallRecord, LocalInv
    <2>2. raced \in BOOLEAN /\ (raced \/ (call[c].mfa <=> Enabled))
      BY <2>1
    <2> HIDE DEF raced
    <2>3. UNCHANGED mfa
      BY DEF IssueSession
    <2> QED
      BY <1>2, <2>1, <2>2, <2>3, AssuranceIssued
  <1> QED
    BY <1>1, <1>2 DEF IssueSession

LEMMA MagicAssurance ==
  ASSUME Inv, AssuranceIsTrue, NEW c \in Calls, Magic(c)
  PROVE  AssuranceIsTrue'
  <1> DEFINE raced == call[c].enabled # Enabled
  <1>1. PICK s \in Sessions :
           session' = [session EXCEPT ![s] = Issued("MAGIC_LINK", FALSE, password, raced)]
    BY DEF Magic
  <1>2. raced \in BOOLEAN /\ (raced \/ (FALSE <=> Enabled)) /\ "MAGIC_LINK" \in Primary
    BY EnabledType DEF Magic, Inv, CallInv, LocalInv, CallRecord, Primary
  <1>3. UNCHANGED mfa
    BY DEF Magic
  <1> HIDE DEF raced
  <1> QED
    BY <1>1, <1>2, <1>3, AssuranceIssued

LEMMA SessionNextAssurance ==
  ASSUME Inv, AssuranceIsTrue, SessionNext
  PROVE  AssuranceIsTrue'
  <1>1. UNCHANGED mfa
    BY SessionNextQuiet DEF Quiet
  <1>2. session \in [Sessions -> SessionRecord]
    BY DEF Inv, SessionInv
  <1>3. ASSUME NEW c \in Calls, Change(c) \/ Reset(c)
        PROVE  SessionsAsTheyWere
    BY <1>3, SessionsUntouched, AssuranceEnds DEF Change, Reset, ReplacePassword
  <1>4. ASSUME NEW s \in Sessions, Invalidate(s) \/ Terminate(s)
        PROVE  SessionsAsTheyWere
    BY <1>2, <1>4, RevokedType DEF Invalidate, Terminate, SessionsAsTheyWere, Unrevoked
  <1>5. ASSUME NEW s \in Sessions, FallDue(s)
        PROVE  SessionsAsTheyWere
    BY <1>2, <1>5 DEF FallDue, SessionsAsTheyWere, Unrevoked, SessionRecord
  <1>6. ASSUME NEW s \in Sessions, GrowStale(s)
        PROVE  SessionsAsTheyWere
    BY <1>2, <1>6 DEF GrowStale, SessionsAsTheyWere, Unrevoked, SessionRecord
  <1>7. ASSUME NEW kept, Administrate(kept)
        PROVE  SessionsAsTheyWere
    BY <1>7, RevokeAllType DEF Administrate, SessionsAsTheyWere, Unrevoked
  <1>8. CASE \/ \E c \in Calls :
                  \/ ProveCurrent(c) \/ Abandon(c) \/ StartMagicMail(c) \/ StartVerificationMail(c)
                  \/ MailMagic(c) \/ MailVerification(c)
                  \/ \E primary \in {"PASSWORD", "GOOGLE_OIDC"} : Authenticate(c, primary)
                  \/ \E s \in Sessions : StartChange(c, s)
                  \/ \E k \in Links : StartReset(c, k) \/ StartMagic(c, k)
             \/ MailReset
             \/ \E k \in Links : Lapse(k) \/ VerifyEmail(k)
             \/ \E status \in {"active", "suspended", "closed"} : Review(status)
    <2>1. UNCHANGED session
      BY <1>8 DEF ProveCurrent, Abandon, StartMagicMail, StartVerificationMail, MailMagic,
                  MailVerification, Authenticate, StartChange, StartReset, StartMagic, MailReset,
                  Lapse, VerifyEmail, Review
    <2> QED
      BY <1>1, <2>1, SessionsUntouched, AssuranceStays
  <1> QED
    BY <1>1, <1>3, <1>4, <1>5, <1>6, <1>7, <1>8, AssuranceStays, IssueSessionAssurance, MagicAssurance
       DEF SessionNext

----------------------------------------------------------------------------
(* The steps of the factors.                                                *)

\* The steps that change the method, or begin to decide an enrollment.
Decides(c) ==
    \/ ReadMethod(c) \/ StartEnrollment(c) \/ CompleteEnrollment(c) \/ EmergencyEnroll(c)
    \/ \E s \in Sessions : StartEmergency(c, s)
    \/ \E k \in Challenges, code \in {"email", "recovery", "wrong"} : StartCompletion(c, k, code)

LEMMA PresentsQuiet ==
  ASSUME Inv, NEW c \in Calls, NEW k, NEW code, NEW facts, "pc" \in DOMAIN facts,
         NEW pc, pc \notin Deciding, Presents(c, k, code, facts, pc), UNCHANGED mfa
  PROVE  Quiet
  <1> DEFINE next == IF Accepts(code) THEN pc ELSE "wrong"
             given == IF code = "recovery" THEN recovery.set ELSE 0
             found == [facts EXCEPT !.row = k, !.code = given]
  <1>1. next \notin Deciding
    BY DEF Deciding
  <1>2. Proceeds(c, next, found)
    BY DEF Presents
  <1> HIDE DEF next, given
  <1>3. "pc" \in DOMAIN found
    OBVIOUS
  <1> HIDE DEF found
  <1> QED
    BY <1>1, <1>2, <1>3, QuietMoves

LEMMA FactorNextQuiet ==
  ASSUME Inv, FactorNext
  PROVE  Quiet \/ Disable \/ \E c \in Calls : Decides(c)
  <1>1. ASSUME NEW c \in Calls,
               CountAttempt(c) \/ SendLoginChallenge(c) \/ SendRecentChallenge(c) \/ Upgrade(c)
                 \/ CompleteRecent(c)
        PROVE  Quiet
    BY <1>1, QuietEnds
       DEF CountAttempt, SendLoginChallenge, SendRecentChallenge, Upgrade, CompleteRecent
  <1>2. ASSUME NEW c \in Calls, RequireFactor(c) \/ AskRecentChallenge(c)
        PROVE  Quiet
    BY <1>2, HasPc, QuietEnds, QuietMoves DEF RequireFactor, AskRecentChallenge, Deciding
  <1>3. ASSUME NEW c \in Calls, Verify(c)
        PROVE  Quiet
    <2> DEFINE facts == [call[c] EXCEPT !.mfa = TRUE, !.enabled = TRUE,
                                        !.raced = challenge[call[c].row].raced]
    <2>1. "pc" \in DOMAIN facts
      BY HasPc
    <2>2. (Proceeds(c, "issue", facts) \/ Ends(c)) /\ UNCHANGED mfa
      BY <1>3 DEF Verify
    <2> HIDE DEF facts
    <2> QED
      BY <2>1, <2>2, QuietMoves, QuietEnds DEF Deciding
  <1>4. ASSUME NEW c \in Calls, Regenerate(c)
        PROVE  Quiet
    <2>1. "pc" \in DOMAIN [call[c] EXCEPT !.primary = "PASSWORD"]
      BY HasPc
    <2> QED
      BY <1>4, <2>1, QuietMoves DEF Regenerate, Deciding
  <1>5. ASSUME NEW c \in Calls, NEW s \in Sessions, StartRegeneration(c, s) \/ StartRecentChallenge(c, s)
        PROVE  Quiet
    BY <1>5, HasPc, QuietMoves DEF StartRegeneration, StartRecentChallenge, Deciding
  <1>6. ASSUME NEW c \in Calls, NEW s \in Sessions, StartRecent(c, s)
        PROVE  Quiet
    <2> DEFINE pc == IF Google(s) \/ Enabled THEN "present" ELSE "upgrade"
               facts == [Context(s) EXCEPT !.primary = IF Google(s) THEN @ ELSE "PASSWORD"]
    <2>1. "pc" \in DOMAIN facts /\ pc \notin Deciding
      BY HasPc DEF Deciding
    <2>2. Proceeds(c, pc, facts) /\ UNCHANGED mfa
      BY <1>6 DEF StartRecent
    <2> HIDE DEF facts, pc
    <2> QED
      BY <2>1, <2>2, QuietMoves
  <1>7. ASSUME NEW c \in Calls, NEW k \in Challenges, Reissue(c, k)
        PROVE  Quiet
    <2>1. "pc" \in DOMAIN [IdleCall EXCEPT !.primary = challenge[k].primary]
      BY DEF IdleCall
    <2> QED
      BY <1>7, <2>1, QuietMoves DEF Reissue, Deciding
  <1>8. ASSUME NEW c \in Calls, NEW k \in Challenges, NEW code,
               StartVerify(c, k, code) \/ PresentRecent(c, k, code)
        PROVE  Quiet
    <2>1. "pc" \in DOMAIN [IdleCall EXCEPT !.primary = challenge[k].primary]
      BY DEF IdleCall
    <2> QED
      BY <1>8, <2>1, HasPc, PresentsQuiet DEF StartVerify, PresentRecent, Deciding
  <1>9. CASE Withdraw \/ \E k \in Challenges : LapseChallenge(k)
    BY <1>9, QuietWaits DEF Withdraw, LapseChallenge
  <1> QED
    BY <1>1, <1>2, <1>3, <1>4, <1>5, <1>6, <1>7, <1>8, <1>9 DEF FactorNext, Decides

\* No call has found the method disabled and is about to reset it.
LEMMA NoStart ==
  ASSUME Serialised, Inv, OrderInv, NEW c \in Calls, Decides(c), ~StartEnrollment(c), ~ReadMethod(c)
  PROVE  \A d \in Calls : call[d].pc # "enroll"
  BY DEF Decides, CompleteEnrollment, EmergencyEnroll, StartEmergency, StartCompletion,
         NoStartInProgress, OrderInv

LEMMA DecidesOrder ==
  ASSUME Serialised, Inv, OrderInv, NEW c \in Calls, Decides(c)
  PROVE  OrderInv'
  <1> DEFINE Others == \A d \in Calls \ {c} : call'[d] = call[d]
  <1>1. call \in [Calls -> CallRecord]
    BY DEF Inv, CallInv
  <1>2. CASE ReadMethod(c)
    <2>1. ~Enabled /\ UNCHANGED mfa /\ \A d \in Calls : call[d].pc \notin Deciding
      BY <1>2 DEF ReadMethod, NothingBeingDecided, Deciding
    <2>2. Others
      BY <1>1, <1>2 DEF ReadMethod, Proceeds
    <2> QED
      BY <2>1, <2>2 DEF OrderInv, Deciding, Enabled
  <1>3. CASE StartEnrollment(c)
    <2>1. Others /\ call'[c].pc = "idle"
      BY <1>1, <1>3 DEF StartEnrollment, Ends, IdleCall
    <2>2. \A d \in Calls \ {c} : call[d].pc # "enroll"
      BY <1>3 DEF StartEnrollment, OrderInv
    <2> QED
      BY <2>1, <2>2 DEF OrderInv
  <1>4. CASE ~StartEnrollment(c) /\ ~ReadMethod(c)
    <2>1. \A d \in Calls : call[d].pc # "enroll"
      BY <1>4, NoStart
    <2>2. ASSUME NEW k, NEW code, StartCompletion(c, k, code)
          PROVE  Others /\ call'[c].pc # "enroll"
      <3> DEFINE next == IF Accepts(code) THEN "complete" ELSE "wrong"
                 given == IF code = "recovery" THEN recovery.set ELSE 0
                 found == [IdleCall EXCEPT !.row = k, !.code = given]
      <3>1. Proceeds(c, next, found)
        BY <2>2 DEF StartCompletion, Presents
      <3>2. "pc" \in DOMAIN found /\ next # "enroll"
        BY DEF IdleCall
      <3> HIDE DEF next, found
      <3> QED
        BY <1>1, <3>1, <3>2 DEF Proceeds
    <2>3. ASSUME NEW s \in Sessions, StartEmergency(c, s)
          PROVE  Others /\ call'[c].pc # "enroll"
      <3>1. "pc" \in DOMAIN Context(s) /\ Proceeds(c, "emergency", Context(s))
        BY <2>3, HasPc DEF StartEmergency
      <3> QED
        BY <1>1, <3>1 DEF Proceeds
    <2>4. CASE CompleteEnrollment(c) \/ EmergencyEnroll(c)
      <3>1. Ends(c)
        BY <2>4 DEF CompleteEnrollment, EmergencyEnroll
      <3>2. Others /\ call'[c].pc # "enroll"
        BY <1>1, <3>1 DEF Ends, IdleCall
      <3> QED
        BY <2>1, <3>2 DEF OrderInv
    <2> QED
      BY <1>4, <2>1, <2>2, <2>3, <2>4 DEF OrderInv, Decides
  <1> QED
    BY <1>2, <1>3, <1>4

LEMMA DecidesAssurance ==
  ASSUME Inv, OrderInv, AssuranceIsTrue, NEW c \in Calls, Decides(c)
  PROVE  AssuranceIsTrue'
  <1>1. CASE UNCHANGED <<session, mfa>>
    BY <1>1, SessionsUntouched, AssuranceStays
  <1>2. CASE StartEnrollment(c)
    <2>1. ~Enabled /\ mfa' = "pending" /\ UNCHANGED session
      BY <1>2 DEF StartEnrollment, OrderInv
    <2> QED
      BY <2>1 DEF AssuranceIsTrue, Enabled, Unrevoked
  <1>3. CASE CompleteEnrollment(c)
    BY <1>1, <1>3, AssuranceEnds DEF CompleteEnrollment
  <1>4. CASE EmergencyEnroll(c)
    <2>1. CASE EmergencyRows(c)
      BY <2>1, RevokeAllType, EmergencySessionType
         DEF EmergencyRows, AssuranceIsTrue, Unrevoked, Enabled
    <2> QED
      BY <1>1, <1>4, <2>1, EmergencyCases
  <1> QED
    BY <1>1, <1>2, <1>3, <1>4 DEF Decides, ReadMethod, StartEmergency, StartCompletion

LEMMA CompleteRecentAssurance ==
  ASSUME Inv, AssuranceIsTrue, NEW c \in Calls, CompleteRecent(c)
  PROVE  AssuranceIsTrue'
  <1> DEFINE s == call[c].session
             verified == session[s].verified \/ Enabled
             r == Raised(session[s], verified, call[c].primary)
  <1>1. /\ s \in Sessions /\ call[c].primary \in Primary
        /\ session \in [Sessions -> SessionRecord] /\ UNCHANGED mfa
    BY DEF CompleteRecent, Inv, CallInv, LocalInv, CallRecord, SessionInv
  <1>2. CASE UNCHANGED session
    BY <1>1, <1>2, SessionsUntouched, AssuranceStays
  <1>3. CASE RecentRows(c, s, call[c].row)
    <2>1. session[s] \in SessionRecord /\ session[s].verified \in BOOLEAN
      BY <1>1 DEF SessionRecord
    <2>2. verified \in BOOLEAN /\ (verified <=> Enabled)
      BY <1>3, <2>1, EnabledType DEF RecentRows, FactorStands
    <2>3. session' = [session EXCEPT ![s] = r]
      BY <1>3 DEF RecentRows
    <2> HIDE DEF verified
    <2>4. r.state = session[s].state /\ r.raced = session[s].raced /\ r.verified = verified
      BY <1>1, <2>1, <2>2, RaisedType
    <2> HIDE DEF r
    <2> QED
      BY <1>1, <2>2, <2>3, <2>4 DEF AssuranceIsTrue, Unrevoked, Enabled
  <1> QED
    BY <1>2, <1>3, RecentCases

LEMMA FactorNextAssurance ==
  ASSUME Inv, OrderInv, AssuranceIsTrue, FactorNext
  PROVE  AssuranceIsTrue'
  <1>1. ASSUME NEW c \in Calls, Upgrade(c)
        PROVE  SessionsAsTheyWere /\ UNCHANGED mfa
    <2>1. session \in [Sessions -> SessionRecord] /\ call[c].session \in Sessions
      BY <1>1 DEF Upgrade, Inv, SessionInv, CallInv, LocalInv
    <2> QED
      BY <1>1, <2>1 DEF Upgrade, SessionsAsTheyWere, Unrevoked, SessionRecord
  <1>2. ASSUME NEW c \in Calls, Regenerate(c)
        PROVE  AssuranceIsTrue'
    BY <1>2, AssuranceEnds DEF Regenerate
  <1>3. CASE Disable
    BY <1>3, AssuranceEnds DEF Disable
  <1>4. CASE UNCHANGED <<session, mfa>>
    BY <1>4, SessionsUntouched, AssuranceStays
  <1>5. ASSUME NEW c \in Calls,
               \/ CountAttempt(c) \/ RequireFactor(c) \/ SendLoginChallenge(c) \/ Verify(c)
               \/ AskRecentChallenge(c) \/ SendRecentChallenge(c)
        PROVE  UNCHANGED <<session, mfa>>
    BY <1>5 DEF CountAttempt, RequireFactor, SendLoginChallenge, Verify, AskRecentChallenge,
                SendRecentChallenge
  <1>6. ASSUME NEW c \in Calls, NEW s \in Sessions,
               StartRegeneration(c, s) \/ StartRecentChallenge(c, s) \/ StartRecent(c, s)
        PROVE  UNCHANGED <<session, mfa>>
    BY <1>6 DEF StartRegeneration, StartRecentChallenge, StartRecent
  <1>7. ASSUME NEW c \in Calls, NEW k \in Challenges, NEW code,
               Reissue(c, k) \/ StartVerify(c, k, code) \/ PresentRecent(c, k, code)
        PROVE  UNCHANGED <<session, mfa>>
    BY <1>7 DEF Reissue, StartVerify, PresentRecent
  <1>8. CASE Withdraw \/ \E k \in Challenges : LapseChallenge(k)
    BY <1>8, <1>4 DEF Withdraw, LapseChallenge
  <1> QED
    BY <1>1, <1>2, <1>3, <1>4, <1>5, <1>6, <1>7, <1>8, AssuranceStays, CompleteRecentAssurance,
       DecidesAssurance
       DEF FactorNext, Decides

LEMMA DisableOrder ==
  ASSUME OrderInv, Disable
  PROVE  OrderInv'
  BY DEF OrderInv, Disable, Enabled

\* The sessions of a principal say the truth about its second factor, if the host keeps
\* enrollments apart: enabling and disabling it revoke every session, and what a call has
\* read before and inserts afterwards is marked as raced.
THEOREM AssuranceIsTrueCorrect ==
  ASSUME Serialised
  PROVE  Spec => []AssuranceIsTrue
  <1> DEFINE Both == OrderInv /\ AssuranceIsTrue
  <1>1. FactorInit => Both
    BY DEF FactorInit, Init, OrderInv, AssuranceIsTrue, Unrevoked, NoSession, IdleCall
  <1>2. Inv /\ Both /\ [Next]_vars => Both'
    <2> SUFFICES ASSUME Inv, OrderInv, AssuranceIsTrue, [Next]_vars PROVE Both'
      OBVIOUS
    <2>1. CASE SessionNext
      BY <2>1, SessionNextQuiet, QuietOrder, SessionNextAssurance
    <2>2. CASE FactorNext
      BY <2>2, FactorNextQuiet, QuietOrder, DisableOrder, DecidesOrder, FactorNextAssurance
    <2>3. CASE UNCHANGED vars
      BY <2>3, QuietWaits, QuietOrder, SessionsUntouched, AssuranceStays DEF vars
    <2> QED
      BY <2>1, <2>2, <2>3 DEF Next
  <1> QED
    BY <1>1, <1>2, Invariance, PTL DEF Spec
=============================================================================
