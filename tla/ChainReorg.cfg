CONSTANTS
    Block <- ReorgBlocks
    Genesis = "g"
    Prev <- ReorgPrev
    Height <- MCHeight
    Work <- MCHeight
    Path <- MCPath
    Outpoint <- ReorgOutpoints
    Spent <- ReorgSpent
    Created <- ReorgCreated
    Replay <- MCReplay
    Bip34 = {"b2", "b3", "b4"}
    BadPow = {}
    BadBody = {}
    BadContext = {}
    BadWeight = {}
    BadInputs = {"b4"}
    MaxOrphans = 3
SPECIFICATION CallSpec
INVARIANTS
    CoinsReplayTip
    MainIsGood
    NoAbort
    IInv
    OrphansSound
PROPERTIES
    RefinesLedger
    TipKeepsWork
    CallsReturn
