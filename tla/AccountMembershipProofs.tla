---------------------- MODULE AccountMembershipProofs ----------------------
(***************************************************************************)
(* Proofs about AccountMembership, for every value of its constants.       *)
(***************************************************************************)
EXTENDS AccountMembership, TLAPS

CallRecord ==
    [pc : {"idle", "authorized", "write", "join"},
     op : {"none", "change", "remove", "leave", "transfer", "close",
           "issue", "resend", "revoke", "accept"},
     target : Principals \cup {None}, role : Roles \cup {"NONE"},
     invitation : Invitations \cup {None}, token : 0 .. MaxResends, due : BOOLEAN]

InvitationRecord ==
    [status : Decided \cup {"NONE", "PENDING"}, token : 0 .. MaxResends, due : BOOLEAN,
     lock : Calls \cup {None}]

Typed ==
    /\ owner \in Principals
    /\ lifecycle \in {"ACTIVE", "CLOSED"}
    /\ accountLock \in Calls \cup {None}
    /\ role \in [Principals -> Roles \cup {"NONE"}]
    /\ invitation \in [Invitations -> InvitationRecord]
    /\ call \in [Calls -> CallRecord]

\* What the local state l of call c says about the rows it locks.
LocalInv(c, l, lock, roles, rows) ==
    /\ lock = c <=> l.pc = "write"
    /\ \A i \in Invitations : rows[i].lock = c <=> l.pc = "join" /\ l.invitation = i
    /\ l.pc = "write" => /\ l.op \in {"change", "remove"}
                         /\ l.target \in Principals /\ roles[l.target] # "NONE"
                         /\ l.op = "change" => l.role \in Roles
    /\ l.op = "change" => l.target \in Principals /\ l.role \in Roles
    /\ l.op \in {"remove", "transfer", "leave"} => l.target \in Principals
    /\ l.op \in {"issue", "resend", "revoke"} => l.invitation \in Invitations
    /\ l.op = "accept" => l.invitation \in Invitations /\ l.target = Invitee[l.invitation]
    /\ l.pc = "join" => l.op = "accept" /\ rows[l.invitation].status = "PENDING"

\* The inductive invariant behind TypeOK and MembersWereInvited.
Inv ==
    /\ Typed
    /\ \A c \in Calls : LocalInv(c, call[c], accountLock, role, invitation)
    /\ MembersWereInvited

----------------------------------------------------------------------------

LEMMA TypeFromInv == Inv => TypeOK
  BY DEF Inv, Typed, TypeOK, CallRecord, InvitationRecord, LocalInv

LEMMA IdleType == IdleCall \in CallRecord
  BY MembershipAssumption DEF IdleCall, CallRecord

\* The steps below change the local state of one call c to l. The other calls
\* keep what they know if c takes or gives back no lock but its own, no
\* membership under somebody else's lock ends, and no row locked by another
\* call changes its status.
LEMMA CallStep ==
  ASSUME Inv, NEW c \in Calls, NEW l \in CallRecord, Becomes(c, l),
         LocalInv(c, l, accountLock', role', invitation'),
         accountLock' = accountLock \/ {accountLock, accountLock'} \subseteq {c, None},
         \A i \in Invitations :
            \/ invitation'[i].lock = invitation[i].lock
            \/ {invitation[i].lock, invitation'[i].lock} \subseteq {c, None},
         \A i \in Invitations :
            invitation[i].lock \in Calls \ {c} => invitation'[i].status = invitation[i].status,
         \A p \in Principals :
            role[p] # "NONE" /\ accountLock \in Calls \ {c} => role'[p] # "NONE"
  PROVE  /\ call' \in [Calls -> CallRecord]
         /\ \A d \in Calls : LocalInv(d, call[d], accountLock, role, invitation)'
  <1>1. call \in [Calls -> CallRecord] /\ None \notin Calls
    BY MembershipAssumption DEF Inv, Typed
  <1>2. call' \in [Calls -> CallRecord]
    BY <1>1 DEF Becomes
  <1>3. ASSUME NEW d \in Calls PROVE LocalInv(d, call[d], accountLock, role, invitation)'
    <2>1. CASE d = c
      BY <1>1, <2>1 DEF Becomes
    <2>2. CASE d # c
      <3>1. call'[d] = call[d] /\ call[d] \in CallRecord
        BY <1>1, <2>2 DEF Becomes
      <3>2. LocalInv(d, call[d], accountLock, role, invitation)
        BY DEF Inv
      <3>3. accountLock' = d <=> accountLock = d
        BY <1>1, <2>2
      <3>4. \A i \in Invitations : invitation'[i].lock = d <=> invitation[i].lock = d
        BY <1>1, <2>2
      <3>5. call[d].pc = "write" => role'[call[d].target] # "NONE"
        BY <2>2, <3>2 DEF LocalInv
      <3>6. call[d].pc = "join" => invitation'[call[d].invitation].status = "PENDING"
        BY <2>2, <3>2 DEF LocalInv
      <3> QED
        BY <3>1, <3>2, <3>3, <3>4, <3>5, <3>6 DEF LocalInv
    <2> QED
      BY <2>1, <2>2
  <1> QED
    BY <1>2, <1>3

\* The special case of a call that returns and holds no lock any more.
LEMMA IdleLocal ==
  ASSUME NEW c \in Calls, NEW lock, NEW roles, NEW rows, lock # c,
         \A i \in Invitations : rows[i].lock # c
  PROVE  LocalInv(c, IdleCall, lock, roles, rows)
  BY DEF LocalInv, IdleCall

LEMMA InvPrime ==
  ASSUME owner' \in Principals, lifecycle' \in {"ACTIVE", "CLOSED"},
         accountLock' \in Calls \cup {None}, role' \in [Principals -> Roles \cup {"NONE"}],
         invitation' \in [Invitations -> InvitationRecord],
         call' \in [Calls -> CallRecord],
         \A d \in Calls : LocalInv(d, call[d], accountLock, role, invitation)',
         MembersWereInvited'
  PROVE  Inv'
  BY DEF Inv, Typed

LEMMA InitInv == Init => Inv
  <1> SUFFICES ASSUME Init PROVE Inv
    OBVIOUS
  <1>1. None \notin Calls /\ Founder \in Principals /\ MaxResends \in Nat
    BY MembershipAssumption
  <1>2. Typed
    BY <1>1, IdleType DEF Init, Typed, Roles, Decided, InvitationRecord
  <1>3. ASSUME NEW c \in Calls PROVE LocalInv(c, call[c], accountLock, role, invitation)
    <2>1. accountLock # c /\ \A i \in Invitations : invitation[i].lock # c
      BY <1>1 DEF Init
    <2>2. call[c] = IdleCall
      BY DEF Init
    <2> QED
      BY <2>1, <2>2, IdleLocal
  <1>4. MembersWereInvited
    BY DEF Init, MembersWereInvited
  <1> QED
    BY <1>2, <1>3, <1>4 DEF Inv

\* A step that changes nothing but one call, which holds no lock before or after.
LEMMA LocalStep ==
  ASSUME Inv, NEW c \in Calls, NEW l \in CallRecord, Becomes(c, l),
         LocalInv(c, l, accountLock, role, invitation),
         UNCHANGED <<owner, lifecycle, accountLock, role, invitation>>
  PROVE  Inv'
  <1>1. /\ call' \in [Calls -> CallRecord]
        /\ \A d \in Calls : LocalInv(d, call[d], accountLock, role, invitation)'
    BY CallStep
  <1>2. MembersWereInvited'
    BY DEF Inv, MembersWereInvited
  <1> QED
    BY <1>1, <1>2 DEF Inv, Typed

\* A call at pc "idle" or "authorized" holds no lock.
LEMMA NoLock ==
  ASSUME Inv, NEW c \in Calls, call[c].pc \in {"idle", "authorized"}
  PROVE  accountLock # c /\ \A i \in Invitations : invitation[i].lock # c
  BY DEF Inv, LocalInv

\* A call without a lock that returns, whatever it did not do.
LEMMA ReturnStep ==
  ASSUME Inv, NEW c \in Calls, call[c].pc \in {"idle", "authorized"}, Return(c),
         UNCHANGED <<owner, lifecycle, accountLock, role, invitation>>
  PROVE  Inv'
  <1>1. LocalInv(c, IdleCall, accountLock, role, invitation)
    BY NoLock, IdleLocal
  <1> QED
    BY <1>1, IdleType, LocalStep DEF Return

LEMMA AuthorizedStep ==
  ASSUME Inv, NEW c \in Calls, call[c].pc = "idle",
         NEW op \in {"change", "remove", "leave", "transfer", "close",
                     "issue", "resend", "revoke"},
         NEW p \in Principals \cup {None}, NEW r \in Roles \cup {"NONE"},
         NEW i \in Invitations \cup {None},
         op = "change" => r \in Roles,
         op \in {"change", "remove", "transfer", "leave"} => p \in Principals,
         op \in {"issue", "resend", "revoke"} => i \in Invitations,
         Authorized(c, op, p, r, i),
         UNCHANGED <<owner, lifecycle, accountLock, role, invitation>>
  PROVE  Inv'
  <1> DEFINE l == [IdleCall EXCEPT !.pc = "authorized", !.op = op, !.target = p,
                                   !.role = r, !.invitation = i]
  <1>1. l \in CallRecord
    BY IdleType DEF CallRecord
  <1>2. LocalInv(c, l, accountLock, role, invitation)
    BY NoLock DEF LocalInv, IdleCall
  <1>3. Becomes(c, l)
    BY DEF Authorized
  <1> HIDE DEF l
  <1> QED
    BY <1>1, <1>2, <1>3, LocalStep

LEMMA AuthorizeInv == ASSUME Inv, NEW c \in Calls, Authorize(c) PROVE Inv'
  <1>0. call[c].pc = "idle" /\ UNCHANGED <<owner, lifecycle, accountLock, role, invitation>>
    BY DEF Authorize
  <1>1. ASSUME NEW p \in Principals, NEW r \in NewRoles, Authorized(c, "change", p, r, None)
        PROVE  Inv'
    BY <1>0, <1>1, AuthorizedStep, MembershipAssumption
  <1>2. ASSUME NEW p \in Principals, NEW op \in {"remove", "transfer", "leave"},
               Authorized(c, op, p, "NONE", None)
        PROVE  Inv'
    BY <1>0, <1>2, AuthorizedStep
  <1>3. ASSUME NEW i \in Invitations, NEW op \in {"issue", "resend", "revoke"},
               Authorized(c, op, None, "NONE", i)
        PROVE  Inv'
    BY <1>0, <1>3, AuthorizedStep
  <1>4. ASSUME Authorized(c, "close", None, "NONE", None) PROVE Inv'
    BY <1>0, <1>4, AuthorizedStep
  <1> QED
    BY <1>1, <1>2, <1>3, <1>4
    DEF Authorize, AuthorizeChange, AuthorizeRemoval, AuthorizeTransfer, AuthorizeIssue,
        AuthorizeResend, AuthorizeRevoke, AuthorizeInvitation, AuthorizeClose, AuthorizeLeave

LEMMA StartAcceptInv == ASSUME Inv, NEW c \in Calls, StartAccept(c) PROVE Inv'
  <1>0. PICK i \in Invitations : \E t \in 0 .. invitation[i].token :
          Becomes(c, [IdleCall EXCEPT !.pc = "authorized", !.op = "accept",
                                      !.target = Invitee[i], !.invitation = i,
                                      !.token = t, !.due = invitation[i].due])
    BY DEF StartAccept
  <1>1. PICK t \in 0 .. invitation[i].token :
          Becomes(c, [IdleCall EXCEPT !.pc = "authorized", !.op = "accept",
                                      !.target = Invitee[i], !.invitation = i,
                                      !.token = t, !.due = invitation[i].due])
    BY <1>0
  <1> DEFINE l == [IdleCall EXCEPT !.pc = "authorized", !.op = "accept",
                                   !.target = Invitee[i], !.invitation = i,
                                   !.token = t, !.due = invitation[i].due]
  <1>2. call[c].pc = "idle" /\ UNCHANGED <<owner, lifecycle, accountLock, role, invitation>>
    BY DEF StartAccept
  <1>3. t \in 0 .. MaxResends /\ invitation[i].due \in BOOLEAN
    BY MembershipAssumption DEF Inv, Typed, InvitationRecord
  <1>4. l \in CallRecord
    BY <1>3, IdleType, MembershipAssumption DEF CallRecord
  <1>5. LocalInv(c, l, accountLock, role, invitation)
    BY <1>2, NoLock DEF LocalInv, IdleCall
  <1>6. Becomes(c, l)
    BY <1>1
  <1> HIDE DEF l
  <1> QED
    BY <1>2, <1>4, <1>5, <1>6, LocalStep

----------------------------------------------------------------------------
\* Who is a member, and was invited, after a step.

LEMMA MembersStep ==
  ASSUME Inv,
         \A p \in Principals :
            role'[p] # "NONE" =>
               \/ role[p] # "NONE"
               \/ \E i \in Invitations : Invitee[i] = p /\ invitation'[i].status = "ACCEPTED",
         \A i \in Invitations :
            invitation[i].status = "ACCEPTED" => invitation'[i].status = "ACCEPTED"
  PROVE  MembersWereInvited'
  BY DEF Inv, MembersWereInvited

LEMMA TypeFacts ==
  ASSUME Inv
  PROVE  /\ Typed /\ None \notin Calls
         /\ \A i \in Invitations : invitation[i] \in InvitationRecord
         /\ \A c \in Calls : call[c] \in CallRecord
         /\ \A c \in Calls : LocalInv(c, call[c], accountLock, role, invitation)
         /\ "NONE" \notin Roles
  BY MembershipAssumption DEF Inv, Typed, Roles

LEMMA CountOwnersInv == ASSUME Inv, NEW c \in Calls, CountOwners(c) PROVE Inv'
  <1>1. /\ call[c].pc = "authorized" /\ call[c].op \in {"change", "remove"}
        /\ accountLock = None
        /\ UNCHANGED <<owner, lifecycle, role, invitation>>
    BY DEF CountOwners, At
  <1>2. CASE Return(c) /\ UNCHANGED accountLock
    BY <1>1, <1>2, ReturnStep
  <1>3. CASE /\ role[call[c].target] # "NONE"
             /\ accountLock' = c
             /\ Becomes(c, [call[c] EXCEPT !.pc = "write"])
    <2> DEFINE l == [call[c] EXCEPT !.pc = "write"]
    <2>1. l \in CallRecord
      BY TypeFacts DEF CallRecord
    <2>2. LocalInv(c, l, accountLock', role', invitation')
      <3>1. LocalInv(c, call[c], accountLock, role, invitation) /\ call[c] \in CallRecord
        BY TypeFacts
      <3>2. /\ l.pc = "write" /\ l.op = call[c].op /\ l.target = call[c].target
            /\ l.role = call[c].role /\ l.invitation = call[c].invitation
        BY <3>1 DEF CallRecord
      <3> HIDE DEF l
      <3> QED
        BY <1>1, <1>3, <3>1, <3>2 DEF LocalInv
    <2>3. Becomes(c, l)
      BY <1>3
    <2> HIDE DEF l
    <2>4. /\ call' \in [Calls -> CallRecord]
          /\ \A d \in Calls : LocalInv(d, call[d], accountLock, role, invitation)'
      BY <1>1, <1>3, <2>1, <2>2, <2>3, CallStep
    <2>5. MembersWereInvited'
      BY <1>1, MembersStep
    <2> QED
      BY <1>1, <1>3, <2>4, <2>5, TypeFacts, InvPrime DEF Typed
  <1> QED
    BY <1>2, <1>3 DEF CountOwners

\* A call returns after a step that leaves it without locks.
LEMMA ReturnWrites ==
  ASSUME Inv, NEW c \in Calls, Return(c),
         accountLock' # c, \A i \in Invitations : invitation'[i].lock # c,
         owner' \in Principals, lifecycle' \in {"ACTIVE", "CLOSED"},
         accountLock' \in Calls \cup {None}, role' \in [Principals -> Roles \cup {"NONE"}],
         invitation' \in [Invitations -> InvitationRecord],
         accountLock' = accountLock \/ {accountLock, accountLock'} \subseteq {c, None},
         \A i \in Invitations :
            \/ invitation'[i].lock = invitation[i].lock
            \/ {invitation[i].lock, invitation'[i].lock} \subseteq {c, None},
         \A i \in Invitations :
            invitation[i].lock \in Calls \ {c} => invitation'[i].status = invitation[i].status,
         \A p \in Principals :
            role[p] # "NONE" /\ accountLock \in Calls \ {c} => role'[p] # "NONE",
         MembersWereInvited'
  PROVE  Inv'
  <1>1. LocalInv(c, IdleCall, accountLock', role', invitation')
    BY IdleLocal
  <1>2. /\ call' \in [Calls -> CallRecord]
        /\ \A d \in Calls : LocalInv(d, call[d], accountLock, role, invitation)'
    BY <1>1, IdleType, CallStep DEF Return
  <1> QED
    BY <1>2, InvPrime

LEMMA WriteMembershipInv == ASSUME Inv, NEW c \in Calls, WriteMembership(c) PROVE Inv'
  <1> DEFINE p == call[c].target
             r == IF call[c].op = "change" THEN call[c].role ELSE "NONE"
  <1>1. /\ call[c].pc = "write" /\ role' = [role EXCEPT ![p] = r]
        /\ accountLock' = None /\ Return(c)
        /\ UNCHANGED <<owner, lifecycle, invitation>>
    BY DEF WriteMembership
  <1>2. /\ p \in Principals /\ role[p] # "NONE" /\ r \in Roles \cup {"NONE"}
        /\ accountLock = c /\ \A i \in Invitations : invitation[i].lock # c
    BY <1>1, TypeFacts DEF LocalInv
  <1> HIDE DEF p, r
  <1>3. role' \in [Principals -> Roles \cup {"NONE"}]
    BY <1>1, <1>2, TypeFacts DEF Typed
  <1>4. MembersWereInvited'
    BY <1>1, <1>2, TypeFacts, MembersStep DEF Typed
  <1> QED
    BY <1>1, <1>2, <1>3, <1>4, TypeFacts, ReturnWrites DEF Typed

\* Leaving, transferring and closing change the roles of members only.
LEMMA LockedWrite ==
  ASSUME Inv, NEW c \in Calls, call[c].pc = "authorized", Return(c), accountLock = None,
         owner' \in Principals, lifecycle' \in {"ACTIVE", "CLOSED"},
         role' \in [Principals -> Roles \cup {"NONE"}],
         \A p \in Principals : role[p] = "NONE" => role'[p] = "NONE",
         UNCHANGED <<accountLock, invitation>>
  PROVE  Inv'
  <1>1. \A i \in Invitations : invitation[i].lock # c
    BY NoLock
  <1>2. MembersWereInvited'
    BY MembersStep
  <1> QED
    BY <1>1, <1>2, TypeFacts, ReturnWrites DEF Typed

LEMMA LeaveInv == ASSUME Inv, NEW c \in Calls, Leave(c) PROVE Inv'
  <1>1. role' \in [Principals -> Roles \cup {"NONE"}]
    BY TypeFacts DEF Leave, Typed
  <1>2. \A p \in Principals : role[p] = "NONE" => role'[p] = "NONE"
    BY TypeFacts DEF Leave, Typed
  <1> QED
    BY <1>1, <1>2, TypeFacts, LockedWrite DEF Leave, At, Typed

LEMMA TransferInv == ASSUME Inv, NEW c \in Calls, Transfer(c) PROVE Inv'
  <1>1. call[c].target \in Principals
    BY TypeFacts DEF Transfer, At, LocalInv
  <1>2. role' \in [Principals -> Roles \cup {"NONE"}] /\ owner' \in Principals
    BY <1>1, TypeFacts DEF Transfer, Typed, Roles
  <1>3. \A p \in Principals : role[p] = "NONE" => role'[p] = "NONE"
    BY <1>1, TypeFacts DEF Transfer, Typed
  <1> QED
    BY <1>2, <1>3, TypeFacts, LockedWrite DEF Transfer, At, Typed

LEMMA CloseInv == ASSUME Inv, NEW c \in Calls, Close(c) PROVE Inv'
  BY TypeFacts, LockedWrite DEF Close, At, Typed

----------------------------------------------------------------------------
\* Invitations

\* A call without locks changes one row nobody has locked, which is not accepted.
LEMMA RowWrite ==
  ASSUME Inv, NEW c \in Calls, call[c].pc = "authorized", Return(c),
         NEW i \in Invitations, NEW row \in InvitationRecord,
         invitation' = [invitation EXCEPT ![i] = row],
         invitation[i].lock = None, row.lock = None,
         invitation[i].status # "ACCEPTED",
         UNCHANGED <<owner, lifecycle, accountLock, role>>
  PROVE  Inv'
  <1>1. accountLock # c /\ \A j \in Invitations : invitation[j].lock # c
    BY NoLock
  <1>2. invitation' \in [Invitations -> InvitationRecord]
    BY TypeFacts DEF Typed
  <1>3. \A j \in Invitations : /\ invitation'[j].lock = invitation[j].lock
                               /\ j # i => invitation'[j] = invitation[j]
    BY TypeFacts DEF Typed
  <1>4. MembersWereInvited'
    BY <1>3, MembersStep
  <1>5. \A j \in Invitations :
           invitation[j].lock \in Calls \ {c} => invitation'[j].status = invitation[j].status
    BY <1>3, TypeFacts
  <1> QED
    BY <1>1, <1>2, <1>3, <1>4, <1>5, TypeFacts, ReturnWrites DEF Typed

LEMMA IssueInv == ASSUME Inv, NEW c \in Calls, Issue(c) PROVE Inv'
  <1> DEFINE i == call[c].invitation
             row == [invitation[i] EXCEPT !.status = "PENDING"]
  <1>1. /\ call[c].pc = "authorized" /\ Return(c) /\ i \in Invitations
        /\ invitation[i].status = "NONE"
        /\ invitation' = [invitation EXCEPT ![i] = row]
        /\ UNCHANGED <<owner, lifecycle, accountLock, role>>
    BY TypeFacts DEF Issue, At, LocalInv
  <1>2. invitation[i] \in InvitationRecord
    BY <1>1, TypeFacts
  <1>3. row \in InvitationRecord /\ row.lock = invitation[i].lock
    BY <1>2 DEF InvitationRecord
  <1>4. invitation[i].lock = None
    <2>1. \A d \in Calls : invitation[i].lock # d
      BY <1>1, TypeFacts DEF LocalInv
    <2> QED
      BY <1>2, <2>1 DEF InvitationRecord
  <1> HIDE DEF i, row
  <1> QED
    BY <1>1, <1>3, <1>4, RowWrite

LEMMA ResendInv == ASSUME Inv, NEW c \in Calls, Resend(c) PROVE Inv'
  <1> DEFINE i == call[c].invitation
             row == [invitation[i] EXCEPT !.token = @ + 1, !.due = FALSE]
  <1>1. /\ call[c].pc = "authorized" /\ Return(c) /\ i \in Invitations
        /\ invitation[i].lock = None /\ invitation[i].token < MaxResends
        /\ UNCHANGED <<owner, lifecycle, accountLock, role>>
    BY TypeFacts DEF Resend, At, LocalInv, Unlocked
  <1>2. invitation[i] \in InvitationRecord /\ invitation \in [Invitations -> InvitationRecord]
    BY <1>1, TypeFacts DEF Typed
  <1>3. CASE UNCHANGED invitation
    BY <1>1, <1>3, ReturnStep
  <1>4. CASE /\ invitation[i].status = "PENDING"
             /\ invitation' = [invitation EXCEPT ![i].token = @ + 1, ![i].due = FALSE]
    <2>0. invitation[i].token + 1 \in 0 .. MaxResends
      BY <1>1, <1>2, MembershipAssumption DEF InvitationRecord
    <2>1. row \in InvitationRecord /\ row.lock = None
      BY <1>1, <1>2, <2>0 DEF InvitationRecord
    <2>2. invitation' = [invitation EXCEPT ![i] = row]
      BY <1>2, <1>4
    <2> HIDE DEF i, row
    <2> QED
      BY <1>1, <1>4, <2>1, <2>2, RowWrite
  <1> QED
    BY <1>3, <1>4 DEF Resend

LEMMA RevokeInv == ASSUME Inv, NEW c \in Calls, Revoke(c) PROVE Inv'
  <1> DEFINE i == call[c].invitation
             row == [invitation[i] EXCEPT !.status = "REVOKED"]
  <1>1. /\ call[c].pc = "authorized" /\ Return(c) /\ i \in Invitations
        /\ invitation[i].lock = None
        /\ UNCHANGED <<owner, lifecycle, accountLock, role>>
    BY TypeFacts DEF Revoke, At, LocalInv, Unlocked
  <1>2. invitation[i] \in InvitationRecord
    BY <1>1, TypeFacts
  <1>3. CASE UNCHANGED invitation
    BY <1>1, <1>3, ReturnStep
  <1>4. CASE /\ invitation[i].status = "PENDING"
             /\ invitation' = [invitation EXCEPT ![i] = row]
    <2>1. row \in InvitationRecord /\ row.lock = None
      BY <1>1, <1>2 DEF InvitationRecord, Decided
    <2> HIDE DEF i, row
    <2> QED
      BY <1>1, <1>4, <2>1, RowWrite
  <1> QED
    BY <1>3, <1>4 DEF Revoke, Revokes

\* Time and the sweep: no call moves, rows change that are PENDING and, if their
\* status changes, not locked.
LEMMA SweepStep ==
  ASSUME Inv, invitation' \in [Invitations -> InvitationRecord],
         \A i \in Invitations :
            /\ invitation'[i].lock = invitation[i].lock
            /\ invitation[i].lock # None => invitation'[i].status = invitation[i].status
            /\ invitation[i].status = "ACCEPTED" => invitation'[i].status = "ACCEPTED",
         UNCHANGED <<owner, lifecycle, accountLock, role, call>>
  PROVE  Inv'
  <1>1. ASSUME NEW d \in Calls PROVE LocalInv(d, call[d], accountLock, role, invitation)'
    <2>1. LocalInv(d, call[d], accountLock, role, invitation) /\ d # None
      BY TypeFacts
    <2>2. call[d].pc = "join" => invitation'[call[d].invitation].status = "PENDING"
      BY <2>1 DEF LocalInv
    <2> QED
      BY <2>1, <2>2 DEF LocalInv
  <1>2. MembersWereInvited'
    BY MembersStep
  <1> QED
    BY <1>1, <1>2, TypeFacts, InvPrime DEF Typed

LEMMA FallDueInv == ASSUME Inv, NEW i \in Invitations, FallDue(i) PROVE Inv'
  <1>1. invitation \in [Invitations -> InvitationRecord]
    BY TypeFacts DEF Typed
  <1>2. invitation' \in [Invitations -> InvitationRecord]
    BY <1>1 DEF FallDue, InvitationRecord
  <1>3. \A j \in Invitations : /\ invitation'[j].lock = invitation[j].lock
                               /\ invitation'[j].status = invitation[j].status
    BY <1>1 DEF FallDue, InvitationRecord
  <1> QED
    BY <1>2, <1>3, SweepStep DEF FallDue

LEMMA ExpireInv == ASSUME Inv, Expire PROVE Inv'
  <1>1. \A i \in Invitations : invitation[i] \in InvitationRecord
    BY TypeFacts
  <1>2. invitation' \in [Invitations -> InvitationRecord]
    BY <1>1 DEF Expire, Due, InvitationRecord, Decided
  <1>3. \A i \in Invitations :
          /\ invitation'[i].lock = invitation[i].lock
          /\ invitation[i].lock # None => invitation'[i].status = invitation[i].status
          /\ invitation[i].status = "ACCEPTED" => invitation'[i].status = "ACCEPTED"
    BY <1>1 DEF Expire, Due, InvitationRecord, Unlocked
  <1> QED
    BY <1>2, <1>3, SweepStep DEF Expire, Due

LEMMA ClaimInvitationInv == ASSUME Inv, NEW c \in Calls, ClaimInvitation(c) PROVE Inv'
  <1>1. /\ call[c].pc = "authorized" /\ call[c].op = "accept"
        /\ call[c].invitation \in Invitations
        /\ UNCHANGED <<owner, lifecycle, accountLock, role>>
    BY TypeFacts DEF ClaimInvitation, At, LocalInv
  <1>2. PICK i \in Invitations : i = call[c].invitation
    BY <1>1
  <1>3. invitation[i].lock = None
    BY <1>2 DEF ClaimInvitation, Unlocked
  <1>4. CASE Return(c) /\ UNCHANGED invitation
    BY <1>1, <1>4, ReturnStep
  <1>5. CASE /\ invitation[i].status = "PENDING"
             /\ invitation' = [invitation EXCEPT ![i].lock = c]
             /\ Becomes(c, [call[c] EXCEPT !.pc = "join"])
    <2> DEFINE l == [call[c] EXCEPT !.pc = "join"]
    <2>1. /\ invitation \in [Invitations -> InvitationRecord]
          /\ invitation[i] \in InvitationRecord
          /\ call[c] \in CallRecord
          /\ LocalInv(c, call[c], accountLock, role, invitation)
      BY <1>1, TypeFacts DEF Typed
    <2>2. invitation' \in [Invitations -> InvitationRecord]
      BY <1>5, <2>1 DEF InvitationRecord
    <2>3. \A j \in Invitations : /\ j # i => invitation'[j] = invitation[j]
                                 /\ j = i => invitation'[j].lock = c
                                 /\ invitation'[j].status = invitation[j].status
      BY <1>5, <2>1 DEF InvitationRecord
    <2>4. /\ l \in CallRecord /\ l.pc = "join" /\ l.op = "accept" /\ l.invitation = i
          /\ l.target = Invitee[i]
      BY <1>1, <1>2, <2>1 DEF CallRecord, LocalInv
    <2>5. accountLock # c /\ \A j \in Invitations : invitation[j].lock # c
      BY <1>1, NoLock
    <2>6. Becomes(c, l)
      BY <1>5
    <2> HIDE DEF l
    <2>7. LocalInv(c, l, accountLock', role', invitation')
      <3>1. accountLock' = c <=> l.pc = "write"
        BY <1>1, <2>4, <2>5
      <3>2. \A j \in Invitations : invitation'[j].lock = c <=> l.pc = "join" /\ l.invitation = j
        BY <2>3, <2>4, <2>5
      <3>3. invitation'[l.invitation].status = "PENDING"
        BY <1>5, <2>3, <2>4
      <3> QED
        BY <2>4, <3>1, <3>2, <3>3 DEF LocalInv
    <2>8. \A j \in Invitations :
            \/ invitation'[j].lock = invitation[j].lock
            \/ {invitation[j].lock, invitation'[j].lock} \subseteq {c, None}
      BY <1>3, <2>3
    <2>9. /\ call' \in [Calls -> CallRecord]
          /\ \A d \in Calls : LocalInv(d, call[d], accountLock, role, invitation)'
      BY <1>1, <2>3, <2>4, <2>6, <2>7, <2>8, CallStep
    <2>10. MembersWereInvited'
      BY <1>1, <2>3, MembersStep
    <2> QED
      BY <1>1, <2>2, <2>9, <2>10, TypeFacts, InvPrime DEF Typed
  <1> QED
    BY <1>2, <1>4, <1>5 DEF ClaimInvitation, Claims

LEMMA JoinInv == ASSUME Inv, NEW c \in Calls, Join(c) PROVE Inv'
  <1>1. /\ call[c].pc = "join" /\ Return(c)
        /\ call[c].invitation \in Invitations
        /\ call[c].target = Invitee[call[c].invitation]
        /\ UNCHANGED <<owner, lifecycle, accountLock>>
    BY TypeFacts DEF Join, LocalInv
  <1>2. PICK i \in Invitations : i = call[c].invitation
    BY <1>1
  <1>3. PICK p \in Principals : p = Invitee[i]
    BY MembershipAssumption
  <1>4. /\ role' = [role EXCEPT ![p] = InvitedRole[i]]
        /\ invitation' = [invitation EXCEPT ![i] = [@ EXCEPT !.status = "ACCEPTED", !.lock = None]]
    BY <1>1, <1>2, <1>3 DEF Join
  <1>5. /\ accountLock # c
        /\ \A j \in Invitations : invitation[j].lock = c <=> j = i
        /\ InvitedRole[i] \in Roles /\ InvitedRole[i] # "NONE"
    BY <1>1, <1>2, TypeFacts, MembershipAssumption DEF LocalInv
  <1>6. /\ invitation \in [Invitations -> InvitationRecord]
        /\ role \in [Principals -> Roles \cup {"NONE"}]
    BY TypeFacts DEF Typed
  <1>7. /\ invitation' \in [Invitations -> InvitationRecord]
        /\ \A j \in Invitations : /\ j # i => invitation'[j] = invitation[j]
                                  /\ j = i => /\ invitation'[j].status = "ACCEPTED"
                                              /\ invitation'[j].lock = None
    BY <1>4, <1>6 DEF InvitationRecord, Decided
  <1>8. /\ role' \in [Principals -> Roles \cup {"NONE"}]
        /\ \A q \in Principals : /\ q # p => role'[q] = role[q]
                                 /\ q = p => role'[q] = InvitedRole[i]
    BY <1>4, <1>5, <1>6
  <1>9. MembersWereInvited'
    BY <1>3, <1>7, <1>8, MembersStep
  <1>10. \A q \in Principals : role[q] # "NONE" => role'[q] # "NONE"
    BY <1>5, <1>8
  <1>11. \A j \in Invitations :
           /\ invitation'[j].lock # c
           /\ \/ invitation'[j].lock = invitation[j].lock
              \/ {invitation[j].lock, invitation'[j].lock} \subseteq {c, None}
           /\ invitation[j].lock \in Calls \ {c} => invitation'[j].status = invitation[j].status
    BY <1>5, <1>7, TypeFacts
  <1> QED
    BY <1>1, <1>5, <1>7, <1>8, <1>9, <1>10, <1>11, TypeFacts, ReturnWrites DEF Typed

LEMMA AbandonInv == ASSUME Inv, NEW c \in Calls, Abandon(c) PROVE Inv'
  <1>1. /\ Return(c) /\ UNCHANGED <<owner, lifecycle, role>>
        /\ accountLock' = IF accountLock = c THEN None ELSE accountLock
    BY DEF Abandon, LockRolledBack
  <1>2. /\ accountLock' # c /\ accountLock' \in Calls \cup {None}
        /\ accountLock' = accountLock \/ {accountLock, accountLock'} \subseteq {c, None}
    BY <1>1, TypeFacts DEF Typed
  <1>3. \A i \in Invitations : invitation[i] \in InvitationRecord
    BY TypeFacts
  <1>4. invitation' \in [Invitations -> InvitationRecord]
    BY <1>3 DEF Abandon, InvitationRecord
  <1>5. \A i \in Invitations :
          /\ invitation'[i].status = invitation[i].status
          /\ invitation'[i].lock = IF invitation[i].lock = c THEN None ELSE invitation[i].lock
    BY <1>3 DEF Abandon, InvitationRecord
  <1>6. \A i \in Invitations :
          /\ invitation'[i].lock # c
          /\ \/ invitation'[i].lock = invitation[i].lock
             \/ {invitation[i].lock, invitation'[i].lock} \subseteq {c, None}
    BY <1>5, TypeFacts
  <1>7. MembersWereInvited'
    BY <1>1, <1>5, MembersStep
  <1> QED
    BY <1>1, <1>2, <1>4, <1>5, <1>6, <1>7, TypeFacts, ReturnWrites DEF Typed

----------------------------------------------------------------------------

LEMMA NextInv == Inv /\ [Next]_vars => Inv'
  <1> SUFFICES ASSUME Inv, [Next]_vars PROVE Inv'
    OBVIOUS
  <1>1. CASE UNCHANGED vars
    BY <1>1 DEF vars, Inv, Typed, MembersWereInvited
  <1>2. ASSUME NEW c \in Calls,
               \/ Authorize(c) \/ StartAccept(c)
               \/ CountOwners(c) \/ WriteMembership(c)
               \/ Leave(c) \/ Transfer(c) \/ Close(c)
               \/ Issue(c) \/ Resend(c) \/ Revoke(c)
               \/ ClaimInvitation(c) \/ Join(c) \/ Abandon(c)
        PROVE  Inv'
    BY <1>2, AuthorizeInv, StartAcceptInv, CountOwnersInv, WriteMembershipInv, LeaveInv,
       TransferInv, CloseInv, IssueInv, ResendInv, RevokeInv, ClaimInvitationInv, JoinInv,
       AbandonInv
  <1> QED
    BY <1>1, <1>2, FallDueInv, ExpireInv DEF Next

LEMMA InvCorrect == Spec => []Inv
  BY InitInv, NextInv, PTL DEF Spec

\* Rows are locked exactly by the calls inside their transactions, and everything
\* is well typed, for any number of calls, principals and invitations.
THEOREM TypeCorrect == Spec => []TypeOK
  BY InvCorrect, TypeFromInv, PTL

\* Whoever belongs to the organization founded it or accepted an invitation, for
\* any number of concurrent calls and whatever they had been authorized on.
THEOREM MembersWereInvitedCorrect == Spec => []MembersWereInvited
  <1>1. Inv => MembersWereInvited
    BY DEF Inv
  <1> QED
    BY <1>1, InvCorrect, PTL

----------------------------------------------------------------------------
\* Joining

LEMMA JoinsOnceStep == Inv /\ [Next]_vars =>
  [\A p \in Principals :
      role[p] = "NONE" /\ role'[p] # "NONE" =>
          \E i \in Invitations :
              /\ Invitee[i] = p
              /\ invitation[i].status = "PENDING" /\ invitation'[i].status = "ACCEPTED"]_vars
  <1> SUFFICES ASSUME Inv, Next, NEW p \in Principals, role[p] = "NONE", role'[p] # "NONE"
               PROVE  \E i \in Invitations :
                         /\ Invitee[i] = p
                         /\ invitation[i].status = "PENDING"
                         /\ invitation'[i].status = "ACCEPTED"
    OBVIOUS
  <1>1. role' # role /\ role \in [Principals -> Roles \cup {"NONE"}]
    BY TypeFacts DEF Typed
  <1>2. ASSUME NEW c \in Calls, WriteMembership(c) PROVE FALSE
    <2>1. call[c].target \in Principals /\ role[call[c].target] # "NONE"
      BY <1>2, TypeFacts DEF WriteMembership, LocalInv
    <2> QED
      BY <1>1, <1>2, <2>1 DEF WriteMembership
  <1>3. ASSUME NEW c \in Calls, Leave(c) PROVE FALSE
    BY <1>1, <1>3 DEF Leave
  <1>4. ASSUME NEW c \in Calls, Transfer(c) PROVE FALSE
    BY <1>1, <1>4 DEF Transfer
  <1>5. ASSUME NEW c \in Calls, Join(c)
        PROVE  \E i \in Invitations :
                  /\ Invitee[i] = p
                  /\ invitation[i].status = "PENDING"
                  /\ invitation'[i].status = "ACCEPTED"
    <2>1. /\ call[c].invitation \in Invitations
          /\ call[c].target = Invitee[call[c].invitation]
          /\ invitation[call[c].invitation].status = "PENDING"
      BY <1>5, TypeFacts DEF Join, LocalInv
    <2>2. PICK i \in Invitations : i = call[c].invitation
      BY <2>1
    <2>3. invitation'[i].status = "ACCEPTED"
      BY <1>5, <2>2, TypeFacts DEF Join, Typed, InvitationRecord
    <2>4. p = Invitee[i]
      BY <1>1, <1>5, <2>1, <2>2 DEF Join
    <2> QED
      BY <2>1, <2>2, <2>3, <2>4
  <1> QED
    BY <1>1, <1>2, <1>3, <1>4, <1>5
    DEF Next, Authorize, StartAccept, CountOwners, Close, Issue, Resend, Revoke,
        ClaimInvitation, Abandon, FallDue, Expire, Due

\* A membership appears only with the acceptance of a pending invitation.
THEOREM JoinsOnceCorrect == Spec => JoinsOncePerInvitation
  BY InvCorrect, JoinsOnceStep, PTL DEF Spec, JoinsOncePerInvitation

----------------------------------------------------------------------------
\* An owner remains

\* A call about to end an OWNER membership has seen another one, which nobody
\* can end before it does.
OwnerInv ==
    /\ OwnerRemains
    /\ \A c \in Calls :
          call[c].pc = "write" /\ Demotes(c) => KeepsAnOwner(call[c].target)

\* Whoever holds a pending invitation is no member yet.
LEMMA PendingAreOutsiders ==
  ASSUME Inv, OutsidersInvited, NEW i \in Invitations, invitation[i].status # "ACCEPTED"
  PROVE  role[Invitee[i]] = "NONE"
  BY MembershipAssumption DEF Inv, MembersWereInvited, OutsidersInvited

\* Steps that change no role and lock no account.
LEMMA RolesKept ==
  ASSUME Inv, OwnerInv, role' = role,
         \A c \in Calls : call'[c].pc = "write" => call'[c] = call[c]
  PROVE  OwnerInv'
  BY DEF OwnerInv, OwnerRemains, Demotes, KeepsAnOwner

\* Steps of a call that returns.
LEMMA ReturnKeepsOthers ==
  ASSUME Inv, NEW c \in Calls, Return(c)
  PROVE  \A d \in Calls : call'[d].pc = "write" => d # c /\ call'[d] = call[d]
  BY TypeFacts DEF Return, Becomes, IdleCall, Typed

\* While no call holds the account, a step that leaves an owner is harmless.
LEMMA NoWriter ==
  ASSUME Inv, NEW c \in Calls, Return(c), accountLock \in {None, c}, OwnerRemains'
  PROVE  OwnerInv'
  <1>1. \A d \in Calls : d # c => call[d].pc # "write"
    BY TypeFacts DEF LocalInv
  <1> QED
    BY <1>1, ReturnKeepsOthers DEF OwnerInv

LEMMA OwnerWrite ==
  ASSUME Inv, OwnerInv, NEW c \in Calls, WriteMembership(c) PROVE OwnerInv'
  <1>1. /\ call[c].pc = "write" /\ Return(c)
        /\ role' = [role EXCEPT ![call[c].target] =
                       IF call[c].op = "change" THEN call[c].role ELSE "NONE"]
        /\ accountLock = c
        /\ call[c].target \in Principals /\ role \in [Principals -> Roles \cup {"NONE"}]
    BY TypeFacts DEF WriteMembership, LocalInv, Typed
  <1>2. OwnerRemains'
    <2>1. CASE Demotes(c)
      BY <1>1, <2>1 DEF OwnerInv, OwnerRemains, KeepsAnOwner
    <2>2. CASE role[call[c].target] # "OWNER"
      BY <1>1, <2>2 DEF OwnerInv, OwnerRemains
    <2>3. CASE call[c].op = "change" /\ call[c].role = "OWNER"
      BY <1>1, <2>3 DEF OwnerRemains
    <2> QED
      BY <2>1, <2>2, <2>3 DEF Demotes
  <1> QED
    BY <1>1, <1>2, NoWriter

LEMMA OwnerLeave ==
  ASSUME Inv, OwnerInv, NEW c \in Calls, Leave(c) PROVE OwnerInv'
  <1>1. OwnerRemains'
    BY TypeFacts DEF Leave, MayLeave, OwnerInv, OwnerRemains, Typed
  <1> QED
    BY <1>1, NoWriter DEF Leave

LEMMA OwnerTransfer ==
  ASSUME Inv, OwnerInv, NEW c \in Calls, Transfer(c) PROVE OwnerInv'
  <1>1. call[c].target \in Principals
    BY TypeFacts DEF Transfer, At, LocalInv
  <1>2. OwnerRemains'
    BY <1>1 DEF Transfer, OwnerInv, OwnerRemains
  <1> QED
    BY <1>2, NoWriter DEF Transfer

LEMMA OwnerJoin ==
  ASSUME Inv, OutsidersInvited, OwnerInv, NEW c \in Calls, Join(c) PROVE OwnerInv'
  <1>1. /\ call[c].pc = "join" /\ Return(c)
        /\ call[c].invitation \in Invitations
        /\ call[c].target = Invitee[call[c].invitation]
        /\ call[c].target \in Principals
        /\ invitation[call[c].invitation].status = "PENDING"
        /\ role \in [Principals -> Roles \cup {"NONE"}]
    BY TypeFacts, MembershipAssumption DEF Join, LocalInv, Typed
  <1>2. role[call[c].target] = "NONE"
    BY <1>1, PendingAreOutsiders
  <1>3. accountLock = None
    BY <1>2 DEF Join
  <1>4. OwnerRemains'
    BY <1>1, <1>2 DEF Join, OwnerInv, OwnerRemains
  <1> QED
    BY <1>1, <1>3, <1>4, NoWriter

LEMMA OwnerCount ==
  ASSUME Inv, OwnerInv, NEW c \in Calls, CountOwners(c) PROVE OwnerInv'
  <1>1. role' = role /\ accountLock = None
    BY DEF CountOwners
  <1>2. CASE Return(c)
    BY <1>1, <1>2, ReturnKeepsOthers, RolesKept
  <1>3. CASE /\ Demotes(c) => KeepsAnOwner(call[c].target)
             /\ Becomes(c, [call[c] EXCEPT !.pc = "write"])
    <2>1. call \in [Calls -> CallRecord] /\ call[c] \in CallRecord
      BY TypeFacts DEF Typed
    <2>2. /\ call'[c].target = call[c].target /\ call'[c].op = call[c].op
          /\ call'[c].role = call[c].role
      BY <1>3, <2>1 DEF Becomes, CallRecord
    <2>3. \A d \in Calls : d # c => call'[d] = call[d]
      BY <1>3, <2>1 DEF Becomes
    <2> QED
      BY <1>1, <1>3, <2>2, <2>3 DEF OwnerInv, OwnerRemains, Demotes, KeepsAnOwner
  <1> QED
    BY <1>2, <1>3 DEF CountOwners

LEMMA OwnerNext == Inv /\ OwnerInv /\ OutsidersInvited /\ [Next]_vars => OwnerInv'
  <1> SUFFICES ASSUME Inv, OwnerInv, OutsidersInvited, [Next]_vars PROVE OwnerInv'
    OBVIOUS
  <1>1. CASE UNCHANGED <<role, call>>
    BY <1>1, RolesKept
  <1>2. ASSUME NEW c \in Calls, Return(c), role' = role PROVE OwnerInv'
    BY <1>2, ReturnKeepsOthers, RolesKept
  <1>3. ASSUME NEW c \in Calls, NEW l, Becomes(c, l), l.pc # "write", role' = role
        PROVE  OwnerInv'
    <2>1. \A d \in Calls : call'[d].pc = "write" => call'[d] = call[d]
      BY <1>3, TypeFacts DEF Becomes, Typed
    <2> QED
      BY <1>3, <2>1, RolesKept
  <1>4. ASSUME NEW c \in Calls, Authorize(c) PROVE OwnerInv'
    <2>1. ASSUME NEW op, NEW p, NEW r, NEW i, Authorized(c, op, p, r, i) PROVE OwnerInv'
      <3>1. [IdleCall EXCEPT !.pc = "authorized", !.op = op, !.target = p, !.role = r,
                             !.invitation = i].pc # "write"
        BY DEF IdleCall
      <3> QED
        BY <1>3, <1>4, <2>1, <3>1 DEF Authorize, Authorized
    <2> QED
      BY <1>4, <2>1
      DEF Authorize, AuthorizeChange, AuthorizeRemoval, AuthorizeTransfer, AuthorizeIssue,
          AuthorizeResend, AuthorizeRevoke, AuthorizeInvitation, AuthorizeClose, AuthorizeLeave
  <1>5. ASSUME NEW c \in Calls, StartAccept(c) PROVE OwnerInv'
    <2>1. PICK i \in Invitations : \E t \in 0 .. invitation[i].token :
            Becomes(c, [IdleCall EXCEPT !.pc = "authorized", !.op = "accept",
                                        !.target = Invitee[i], !.invitation = i,
                                        !.token = t, !.due = invitation[i].due])
      BY <1>5 DEF StartAccept
    <2>2. PICK t \in 0 .. invitation[i].token :
            Becomes(c, [IdleCall EXCEPT !.pc = "authorized", !.op = "accept",
                                        !.target = Invitee[i], !.invitation = i,
                                        !.token = t, !.due = invitation[i].due])
      BY <2>1
    <2>3. [IdleCall EXCEPT !.pc = "authorized", !.op = "accept", !.target = Invitee[i],
                           !.invitation = i, !.token = t, !.due = invitation[i].due].pc # "write"
      BY DEF IdleCall
    <2> QED
      BY <1>3, <1>5, <2>2, <2>3 DEF StartAccept
  <1>6. ASSUME NEW c \in Calls, ClaimInvitation(c) PROVE OwnerInv'
    <2>1. [call[c] EXCEPT !.pc = "join"].pc # "write"
      BY TypeFacts DEF CallRecord
    <2> QED
      BY <1>2, <1>3, <1>6, <2>1 DEF ClaimInvitation
  <1>7. ASSUME NEW c \in Calls,
               \/ Close(c) \/ Issue(c) \/ Resend(c) \/ Revoke(c) \/ Abandon(c)
        PROVE  OwnerInv'
    BY <1>2, <1>7 DEF Close, Issue, Resend, Revoke, Abandon
  <1> QED
    BY <1>1, <1>4, <1>5, <1>6, <1>7, OwnerWrite, OwnerLeave, OwnerTransfer, OwnerJoin, OwnerCount
    DEF Next, vars, FallDue, Expire

\* When invitations go to principals who are not members, no interleaving of
\* demotions, removals, departures, transfers and acceptances leaves the
\* organization without an OWNER membership.
THEOREM OwnerRemainsCorrect ==
  ASSUME OutsidersInvited PROVE Spec => []OwnerRemains
  <1>1. Init => OwnerInv
    BY MembershipAssumption DEF Init, OwnerInv, OwnerRemains, IdleCall
  <1>2. Inv /\ OwnerInv /\ [Next]_vars => OwnerInv'
    BY OwnerNext
  <1>3. OwnerInv => OwnerRemains
    BY DEF OwnerInv
  <1> QED
    BY <1>1, <1>2, <1>3, InvCorrect, PTL DEF Spec
=============================================================================
