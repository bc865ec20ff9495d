CONSTANTS
    TxH <- MCTxH
    Blocks <- MCBlocks
    Idx <- MCIdx
    Amounts <- MCAmounts
    Spenders <- MCSpenders
    Received <- MCReceived
    SerTx <- MCSerTx
    Now <- MCNow
    MaxOps = 3

SPECIFICATION Spec

INVARIANTS
    TypeOK
    PrefixScansInOrder
    BlockIteratorsInOrder
    LatestTxRecordNewest
    PointReadsAgree

PROPERTIES
    StoreRecordsKept

\* Behaviours end at the MaxOps bound; the store itself never has to act.
CHECK_DEADLOCK FALSE
