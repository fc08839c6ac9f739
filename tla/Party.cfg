SPECIFICATION Spec
CONSTANTS
    Players = {a, b, c}
    NoPlayer = NoPlayer
    Exempt = {c}
    Parties = {P1, P2}
    NoParty = NoParty
SYMMETRY Symmetry
CONSTRAINT ChannelOrSharing
INVARIANTS
    PlayersAgree
    UsersOnline
    SharedNeedsAll
CHECK_DEADLOCK FALSE
