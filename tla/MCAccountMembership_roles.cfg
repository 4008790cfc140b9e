SPECIFICATION Spec
INVARIANTS TypeOK OwnerRemains MembersWereInvited
PROPERTY JoinsOncePerInvitation
SYMMETRY Symmetry
CHECK_DEADLOCK FALSE
CONSTANTS
    f = f
    a = a
    b = b
    i1 = i1
    i2 = i2
    c1 = c1
    c2 = c2
    None = None
    Calls = {c1, c2}
    Principals = {f, a, b}
    Founder = f
    Invitations = {i1, i2}
    Invitee <- InviteeOfOutsiders
    InvitedRole <- OwnerAndMember
    NewRoles = {"OWNER", "MEMBER"}
    MaxResends = 1
