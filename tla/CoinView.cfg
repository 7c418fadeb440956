CONSTANTS
    Tx <- MCTx
    Coinbase <- MCCoinbase
    Outpoint <- MCOutpoint
    Inputs <- MCInputs
    Outputs <- MCOutputs
    Candidates <- MCCandidates
    Maturity = 2
    MaxHeight = 6
SPECIFICATION Spec
INVARIANTS
    UnspentExactly
    UndoExact
    AcceptsExactly
