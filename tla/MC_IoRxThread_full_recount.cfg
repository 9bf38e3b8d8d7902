\* RX thread, control frames only, one-slot TXQ: IO_FULL retries.
CONSTANTS
    FrameNr <- MC_FrameNr
    TxqSize <- MC_TxqSize
    MaxFrames <- MC_MaxFrames
    MaxCount <- MC_MaxCount
    Modes = {TRUE}
    Kinds = {"ctrl"}
SPECIFICATION RxSpec
INVARIANT CountedOnce
