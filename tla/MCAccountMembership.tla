------------------------ MODULE MCAccountMembership ------------------------
(* Small instances of AccountMembership for TLC. *)
EXTENDS AccountMembership, TLC

CONSTANTS f, a, b, i1, i2, c1, c2

\* Two outsiders, one invited as OWNER and one as MEMBER.
InviteeOfOutsiders == [x \in {i1, i2} |-> IF x = i1 THEN a ELSE b]

\* The founder is invited as well.
InviteeWithFounder == [x \in {i1, i2} |-> IF x = i1 THEN a ELSE f]

OwnerAndMember == [x \in {i1, i2} |-> IF x = i1 THEN "OWNER" ELSE "MEMBER"]

Symmetry == Permutations({c1, c2})

ASSUME OutsidersAreInvited ==
    Invitee = InviteeOfOutsiders => OutsidersInvited
=============================================================================
