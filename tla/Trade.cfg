SPECIFICATION Spec
CONSTANTS
    Players = {a, b, c}
    Containers = {bag, box}
    Items = {bag, box, coin}
    NoPlayer = NoPlayer
    NoItem = NoItem
    Nowhere = Nowhere
    Slots = 1
    Room = 1
    Capacity = 4
    OfferLimit = 2
    ItemReach = 0
    PartnerReach = 1
    LastPlace = 2
SYMMETRY Symmetry
INVARIANTS
    SidesAgree
    OffersRegistered
    OffersAsShown
    TradersTogether
