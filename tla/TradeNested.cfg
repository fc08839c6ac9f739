SPECIFICATION Spec
CONSTANTS
    Players = {a, b}
    Containers = {bag, box, sack, pouch}
    Items = {bag, box, sack, pouch, coin}
    NoPlayer = NoPlayer
    NoItem = NoItem
    Nowhere = Nowhere
    Slots = 1
    Room = 1
    Capacity = 4
    OfferLimit = 3
    ItemReach = 0
    PartnerReach = 0
    LastPlace = 0
SYMMETRY Symmetry
INVARIANTS
    NestingSound
PROPERTIES
    ExchangeIsMutual
