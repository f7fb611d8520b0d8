\* Ints are -4 .. 3, sizes 0 .. 8: a wrapped size can be -4 .. -1 and 0.
SPECIFICATION FairTransferSpec
CONSTANTS
    MaxSize = 8
    BufferSize = 2
    MaxInt = 3
    SizeModulus = 16
INVARIANTS TransferTypeOK StoredGoesOn AcceptedIsWhole
PROPERTY FramedFileIsReceived
CHECK_DEADLOCK FALSE
