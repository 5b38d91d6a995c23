CONSTANTS
    Argvs <- MCArgvs
    NandInfos <- MCNandInfos
    MaxSizes <- MCMaxSizes
    ImageSizes <- MCImageSizes
SPECIFICATION Spec
CHECK_DEADLOCK FALSE
INVARIANTS TypeOK FlashWritesItsOwnImage NoStaleActions ImageFullyWritten SparseClosedAtExit FlashedOnlyAsked
