------------------------- MODULE AccountMembership -------------------------
(***************************************************************************)
(* One organization of @bke/accounts: its owner, lifecycle, memberships    *)
(* and invitations, under concurrent calls of the capabilities that change *)
(* them. Each call authorizes its actor first and writes in a later        *)
(* transaction. Membership changes lock the CustomerAccount row; accepting *)
(* an invitation locks only the invitation's row, and its insert of a new  *)
(* membership waits for the account through the foreign key.               *)
(***************************************************************************)
EXTENDS Naturals

CONSTANTS
    Calls,          \* slots for concurrent calls
    Principals,
    Founder,        \* the principal who created the organization
    Invitations,    \* invitations that may be issued
    Invitee,        \* the principal whose email an invitation names
    InvitedRole,
    NewRoles,       \* the roles membership-role-change is asked to give
    MaxResends,     \* bound on the resends of an invitation
    None

Roles == {"OWNER", "BILLING", "LICENSE_MANAGER", "MEMBER"}
Decided == {"ACCEPTED", "REVOKED", "EXPIRED"}

ASSUME MembershipAssumption ==
    /\ Founder \in Principals
    /\ Invitee \in [Invitations -> Principals]
    /\ InvitedRole \in [Invitations -> Roles]
    /\ NewRoles \subseteq Roles
    /\ MaxResends \in Nat
    /\ None \notin Calls \cup Principals \cup Invitations

VARIABLES
    owner,          \* CustomerAccount.ownerId
    lifecycle,      \* CustomerAccount.lifecycleState
    accountLock,    \* the call holding the CustomerAccount row FOR UPDATE, or None
    role,           \* Membership: the role of every principal, "NONE" without a row
    invitation,     \* Invitation: status, number of the current token, whether
                    \* expiresAt has passed, and the call that locks the row
    call            \* the local state of every call

vars == <<owner, lifecycle, accountLock, role, invitation, call>>

IdleCall == [pc |-> "idle", op |-> "none", target |-> None, role |-> "NONE",
             invitation |-> None, token |-> 0, due |-> FALSE]

\* Types, and that a row is locked only while its call is in a transaction.
TypeOK ==
    /\ owner \in Principals
    /\ lifecycle \in {"ACTIVE", "CLOSED"}
    /\ accountLock \in Calls \cup {None}
    /\ role \in [Principals -> Roles \cup {"NONE"}]
    /\ invitation \in [Invitations -> [status : Decided \cup {"NONE", "PENDING"},
                                       token : 0 .. MaxResends, due : BOOLEAN,
                                       lock : Calls \cup {None}]]
    /\ call \in [Calls -> [pc : {"idle", "authorized", "write", "join"},
                           op : {"none", "change", "remove", "leave", "transfer", "close",
                                 "issue", "resend", "revoke", "accept"},
                           target : Principals \cup {None}, role : Roles \cup {"NONE"},
                           invitation : Invitations \cup {None},
                           token : 0 .. MaxResends, due : BOOLEAN]]
    /\ \A c \in Calls :
          /\ accountLock = c <=> call[c].pc = "write"
          /\ \A i \in Invitations :
                invitation[i].lock = c <=> call[c].pc = "join" /\ call[c].invitation = i

Init ==
    /\ owner = Founder
    /\ lifecycle = "ACTIVE"
    /\ accountLock = None
    /\ role = [p \in Principals |-> IF p = Founder THEN "OWNER" ELSE "NONE"]
    /\ invitation = [i \in Invitations |->
                        [status |-> "NONE", token |-> 0, due |-> FALSE, lock |-> None]]
    /\ call = [c \in Calls |-> IdleCall]

----------------------------------------------------------------------------
\* Account access

EffectiveRole(p) == IF owner = p THEN "OWNER" ELSE role[p]

\* MANAGE_MEMBERS and CLOSE_ACCOUNT belong to OWNER alone.
MayManage(p) == EffectiveRole(p) = "OWNER"

Becomes(c, local) == call' = [call EXCEPT ![c] = local]
Return(c) == Becomes(c, IdleCall)

Authorized(c, op, target, newRole, i) ==
    Becomes(c, [IdleCall EXCEPT !.pc = "authorized", !.op = op, !.target = target,
                                !.role = newRole, !.invitation = i])

\* Calls that change members or invitations are refused unless the account is active;
\* leaving and closing have no such rule.
MayAdministrate(actor) == MayManage(actor) /\ lifecycle = "ACTIVE"

AuthorizeChange(c, actor) ==
    /\ MayAdministrate(actor)
    /\ \E p \in Principals, r \in NewRoles : Authorized(c, "change", p, r, None)

AuthorizeRemoval(c, actor) ==
    /\ MayAdministrate(actor)
    /\ \E p \in Principals : Authorized(c, "remove", p, "NONE", None)

AuthorizeTransfer(c, actor) ==
    /\ MayAdministrate(actor)
    /\ \E p \in Principals : Authorized(c, "transfer", p, "NONE", None)

AuthorizeIssue(c, actor) ==
    /\ MayAdministrate(actor)
    /\ \E i \in Invitations : Authorized(c, "issue", None, "NONE", i)

\* The invitation is read before the actor is authorized, and must be pending.
AuthorizeInvitation(c, actor, op) ==
    /\ MayAdministrate(actor)
    /\ \E i \in Invitations :
          /\ invitation[i].status = "PENDING"
          /\ Authorized(c, op, None, "NONE", i)

AuthorizeResend(c, actor) == AuthorizeInvitation(c, actor, "resend")
AuthorizeRevoke(c, actor) == AuthorizeInvitation(c, actor, "revoke")

AuthorizeClose(c, actor) ==
    /\ MayManage(actor)
    /\ Authorized(c, "close", None, "NONE", None)

AuthorizeLeave(c, actor) ==
    /\ EffectiveRole(actor) \notin {"OWNER", "NONE"}
    /\ Authorized(c, "leave", actor, "NONE", None)

\* A call reads the account and its actor's membership, and no row it will change.
Authorize(c) ==
    /\ call[c].pc = "idle"
    /\ \E actor \in Principals :
          \/ AuthorizeChange(c, actor) \/ AuthorizeRemoval(c, actor) \/ AuthorizeTransfer(c, actor)
          \/ AuthorizeIssue(c, actor) \/ AuthorizeResend(c, actor) \/ AuthorizeRevoke(c, actor)
          \/ AuthorizeClose(c, actor) \/ AuthorizeLeave(c, actor)
    /\ UNCHANGED <<owner, lifecycle, accountLock, role, invitation>>

At(c, op) == call[c].pc = "authorized" /\ call[c].op = op

----------------------------------------------------------------------------
\* Role change and removal: count the owners under the account's lock, write.

KeepsAnOwner(p) == \E q \in Principals \ {p} : role[q] = "OWNER"

\* The OWNER row would go.
Demotes(c) ==
    /\ role[call[c].target] = "OWNER"
    /\ call[c].op = "change" => call[c].role # "OWNER"

CountOwners(c) ==
    /\ At(c, "change") \/ At(c, "remove")
    /\ accountLock = None
    /\ \/ /\ role[call[c].target] # "NONE"
          /\ Demotes(c) => KeepsAnOwner(call[c].target)
          /\ accountLock' = c
          /\ Becomes(c, [call[c] EXCEPT !.pc = "write"])
       \/ /\ \/ role[call[c].target] = "NONE"                   \* MEMBER_NOT_FOUND
             \/ Demotes(c) /\ ~KeepsAnOwner(call[c].target)    \* LAST_OWNER_REQUIRED
          /\ Return(c)
          /\ UNCHANGED accountLock
    /\ UNCHANGED <<owner, lifecycle, role, invitation>>

\* UPDATE or DELETE of the membership, COMMIT.
WriteMembership(c) ==
    /\ call[c].pc = "write"
    /\ role' = [role EXCEPT ![call[c].target] =
                   IF call[c].op = "change" THEN call[c].role ELSE "NONE"]
    /\ accountLock' = None
    /\ Return(c)
    /\ UNCHANGED <<owner, lifecycle, invitation>>

----------------------------------------------------------------------------
\* Leaving, transferring ownership and closing: one transaction under the lock.

\* mutant: what the authorization saw of the principal is trusted
MayLeaveAsAuthorized(p) == role[p] # "NONE"

MayLeave(p) == role[p] \notin {"NONE", "OWNER"} /\ owner # p

Leave(c) ==
    /\ At(c, "leave")
    /\ accountLock = None
    /\ role' = IF MayLeave(call[c].target)
               THEN [role EXCEPT ![call[c].target] = "NONE"]
               ELSE role
    /\ Return(c)
    /\ UNCHANGED <<owner, lifecycle, accountLock, invitation>>

Transfer(c) ==
    /\ At(c, "transfer")
    /\ accountLock = None
    /\ LET p == call[c].target
       IN  \/ /\ lifecycle = "ACTIVE" /\ role[p] # "NONE" /\ p # owner
              /\ owner' = p
              /\ role' = [q \in Principals |->
                             IF q = p THEN "OWNER"
                             ELSE IF q = owner /\ role[q] = "OWNER" THEN "BILLING"
                             ELSE role[q]]
           \/ /\ ~(lifecycle = "ACTIVE" /\ role[p] # "NONE" /\ p # owner)
              /\ UNCHANGED <<owner, role>>
    /\ Return(c)
    /\ UNCHANGED <<lifecycle, accountLock, invitation>>

Close(c) ==
    /\ At(c, "close")
    /\ accountLock = None
    /\ lifecycle' = "CLOSED"
    /\ Return(c)
    /\ UNCHANGED <<owner, accountLock, role, invitation>>

----------------------------------------------------------------------------
\* Invitations

\* The insert waits for the account's lock through the foreign key.
Issue(c) ==
    /\ At(c, "issue")
    /\ accountLock = None
    /\ invitation[call[c].invitation].status = "NONE"
    /\ invitation' = [invitation EXCEPT ![call[c].invitation].status = "PENDING"]
    /\ Return(c)
    /\ UNCHANGED <<owner, lifecycle, accountLock, role>>

Unlocked(i) == invitation[i].lock = None

\* UPDATE ... WHERE status = 'PENDING': a new token, a new time of expiry.
Resend(c) ==
    /\ At(c, "resend")
    /\ Unlocked(call[c].invitation)
    /\ LET i == call[c].invitation
       IN  /\ invitation[i].token < MaxResends
           /\ invitation' = IF invitation[i].status = "PENDING"
                            THEN [invitation EXCEPT ![i].token = @ + 1, ![i].due = FALSE]
                            ELSE invitation
    /\ Return(c)
    /\ UNCHANGED <<owner, lifecycle, accountLock, role>>

\* mutant: the UPDATE trusts the status found before authorization
RevokesFound(i) == TRUE

Revokes(i) == invitation[i].status = "PENDING"

Revoke(c) ==
    /\ At(c, "revoke")
    /\ Unlocked(call[c].invitation)
    /\ LET i == call[c].invitation
       IN  invitation' = IF Revokes(i)
                         THEN [invitation EXCEPT ![i].status = "REVOKED"]
                         ELSE invitation
    /\ Return(c)
    /\ UNCHANGED <<owner, lifecycle, accountLock, role>>

\* expiresAt passes.
FallDue(i) ==
    /\ invitation[i].status = "PENDING" /\ ~invitation[i].due
    /\ invitation' = [invitation EXCEPT ![i].due = TRUE]
    /\ UNCHANGED <<owner, lifecycle, accountLock, role, call>>

Due(i) == invitation[i].status = "PENDING" /\ invitation[i].due

\* The sweep: one UPDATE of all due invitations, waiting for locked ones.
Expire ==
    /\ \E i \in Invitations : Due(i)
    /\ \A i \in Invitations : Due(i) => Unlocked(i)
    /\ invitation' = [i \in Invitations |->
                         IF Due(i) THEN [invitation[i] EXCEPT !.status = "EXPIRED"] ELSE invitation[i]]
    /\ UNCHANGED <<owner, lifecycle, accountLock, role, call>>

\* The invitee presents a token sent at some time; the clock is read now.
StartAccept(c) ==
    /\ call[c].pc = "idle"
    /\ \E i \in Invitations : \E t \in 0 .. invitation[i].token :
          /\ invitation[i].status # "NONE"
          /\ Becomes(c, [IdleCall EXCEPT !.pc = "authorized", !.op = "accept",
                                         !.target = Invitee[i], !.invitation = i,
                                         !.token = t, !.due = invitation[i].due])
    /\ UNCHANGED <<owner, lifecycle, accountLock, role, invitation>>

\* mutant: the status is not part of the WHERE clause
ClaimsAnyStatus(c, i) ==
    /\ invitation[i].token = call[c].token
    /\ ~(invitation[i].due /\ call[c].due)

\* The claiming UPDATE matches: not expired at the time read by the call.
Claims(c, i) ==
    /\ invitation[i].token = call[c].token
    /\ invitation[i].status = "PENDING"
    /\ ~(invitation[i].due /\ call[c].due)

\* Claim the invitation, locking its row, and read the lifecycle without a lock.
ClaimInvitation(c) ==
    /\ At(c, "accept")
    /\ LET i == call[c].invitation
       IN  /\ Unlocked(i)
           /\ \/ /\ Claims(c, i) /\ lifecycle = "ACTIVE"
                 /\ invitation' = [invitation EXCEPT ![i].lock = c]
                 /\ Becomes(c, [call[c] EXCEPT !.pc = "join"])
              \/ /\ ~(Claims(c, i) /\ lifecycle = "ACTIVE")
                 /\ Return(c)
                 /\ UNCHANGED invitation
    /\ UNCHANGED <<owner, lifecycle, accountLock, role>>

\* Upsert the membership and commit. A new row waits for the account's lock.
Join(c) ==
    /\ call[c].pc = "join"
    /\ LET i == call[c].invitation
       IN  /\ role[call[c].target] = "NONE" => accountLock = None
           /\ role' = [role EXCEPT ![call[c].target] = InvitedRole[i]]
           /\ invitation' = [invitation EXCEPT ![i] = [@ EXCEPT !.status = "ACCEPTED",
                                                                !.lock = None]]
    /\ Return(c)
    /\ UNCHANGED <<owner, lifecycle, accountLock>>

----------------------------------------------------------------------------
\* mutant: the client is dropped without ROLLBACK
LockKept(c) == accountLock

LockRolledBack(c) == IF accountLock = c THEN None ELSE accountLock

\* The call dies or its database fails; an open transaction rolls back.
Abandon(c) ==
    /\ call[c].pc # "idle"
    /\ accountLock' = LockRolledBack(c)
    /\ invitation' = [i \in Invitations |->
                         IF invitation[i].lock = c THEN [invitation[i] EXCEPT !.lock = None]
                         ELSE invitation[i]]
    /\ Return(c)
    /\ UNCHANGED <<owner, lifecycle, role>>

Next ==
    \/ \E c \in Calls :
          \/ Authorize(c) \/ StartAccept(c)
          \/ CountOwners(c) \/ WriteMembership(c)
          \/ Leave(c) \/ Transfer(c) \/ Close(c)
          \/ Issue(c) \/ Resend(c) \/ Revoke(c)
          \/ ClaimInvitation(c) \/ Join(c) \/ Abandon(c)
    \/ \E i \in Invitations : FallDue(i)
    \/ Expire

Spec == Init /\ [][Next]_vars

----------------------------------------------------------------------------
\* Properties

\* Invitations go to principals who have no membership, one to each.
OutsidersInvited ==
    /\ \A i \in Invitations : Invitee[i] # Founder
    /\ \A i, j \in Invitations : Invitee[i] = Invitee[j] => i = j

\* Concurrent demotions, removals, departures and transfers never leave the
\* organization without an OWNER membership.
OwnerRemains == \E p \in Principals : role[p] = "OWNER"

\* Whoever belongs to the organization founded it or accepted an invitation that
\* stays recorded as accepted, although owners revoke, resend and expire it.
MembersWereInvited ==
    \A p \in Principals :
        role[p] # "NONE" =>
            p = Founder \/ \E i \in Invitations : Invitee[i] = p /\ invitation[i].status = "ACCEPTED"

\* Nobody joins by an invitation that was revoked or expired, or a second time by
\* one already accepted: a membership appears only when its invitation turns from
\* PENDING to ACCEPTED.
JoinsOncePerInvitation ==
    [][\A p \in Principals :
          role[p] = "NONE" /\ role'[p] # "NONE" =>
              \E i \in Invitations :
                  /\ Invitee[i] = p
                  /\ invitation[i].status = "PENDING" /\ invitation'[i].status = "ACCEPTED"]_vars

\* The last OWNER membership is not changed to another role or removed by the
\* guarded operations, role change and removal.  It holds only while members are not
\* invited (README, section 3): accepting changes a role without the account's lock.
LastOwnerKept ==
    [][\A c \in Calls :
          call[c].pc = "write" /\ call'[c].pc = "idle" /\ Demotes(c) /\ role' # role =>
              KeepsAnOwner(call[c].target)]_vars
=============================================================================
