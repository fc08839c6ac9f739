SPECIFICATION WorldSpec
CONSTANTS
    hero = hero
    rat = rat
    wolf = wolf
    Adventurers <- MCAdventurers
    Monsters <- MCMonsters
    Nobody = Nobody
    Places = {0, 1, 2}
    View = 1
    Slots = {1, 2}
    Beasts = {x, y, z}
    RateSpawn = 1
    Objects = {1, 2, 3}
    WornSlots = {"feet", "hand", "neck"}
    Kinds <- MCKinds
    Info <- MCInfo
    LastBucket = 1
    LastLevel = 2
    Viewer = hero
    GameMasters = {gm}
    Roamers <- MCMonsters
    LastTile = 2
    Sight = 1
    TopOrder <- MCTopOrder
    Splashes = {"splash"}
    DownItems = {"bag", "fire"}
    Fields = {"fire"}
    MaxThings = 4
    MaxKnown = 3
VIEW WorldView
CONSTRAINT WorldBounds
INVARIANTS
    UsesCounted
    PointersLead
    DeathNoticed
    OpponentsKnown
    SpawnLooksAgain
    ItemsCounted
    AbilitiesExact
    DecayGoesOn
    ClientShowsTiles
CHECK_DEADLOCK FALSE
