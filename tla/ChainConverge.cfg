CONSTANTS
    Block <- RaceBlocks
    Genesis = "g"
    Prev <- RacePrev
    Height <- MCHeight
    Work <- MCHeight
    Path <- MCPath
    Outpoint <- RaceOutpoints
    Spent <- RaceSpent
    Created <- RaceCreated
    Replay <- MCReplay
    Bip34 = {}
    BadPow = {"pow"}
    BadBody = {"sane"}
    BadContext = {"ctx"}
    BadWeight = {"heavy"}
    BadInputs = {}
    MaxOrphans = 2
SPECIFICATION DeliverySpec
INVARIANTS
    InvalidSound
PROPERTIES
    Converges
