SPECIFICATION SocietySpec
CONSTANTS
    ann = ann
    bob = bob
    cid = cid
    dan = dan
    Players <- MCPlayers
    NoOwner = NoOwner
    OfferIds = {o1}
    NoOffer = NoOffer
    Houses = Houses
    Floors = Floors
    Stock <- MCStock
    Coins <- MCCoins
    Price = 1
    Fee = 1
    Rent = 1
    MaxOffers = 1
    MaxAmount = 2
    MaxWarnings = 1
    MaxFaults = 1
    Mates <- MCMates
    LastGuild = 2
    MaxAwaited = 1
    Chatters <- MCMates
    ChannelIds = {1, 2}
    MaxPending = 1
    Clients <- MCClients
    Premium = {ann, bob}
    Staff = {dan}
    MaxPlayers = 1
VIEW SocietyView
CONSTRAINT SocietyBounds
INVARIANTS
    DepotChangesMarked
    OneLeader
    ChannelOfMembers
    ListenersInvited
    PlacesKept
PROPERTIES
    GoodsConserved
    RoomForThoseAhead
CHECK_DEADLOCK FALSE
