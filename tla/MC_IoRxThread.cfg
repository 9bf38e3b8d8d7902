\* An interface with an RX thread and one without; every frame kind;
\* a one-slot TXQ so that IO_FULL back-pressure happens.
CONSTANTS
    FrameNr <- MC_FrameNr
    TxqSize <- MC_TxqSize
    MaxFrames <- MC_MaxFrames
    MaxCount <- MC_MaxCount
    Modes = {FALSE, TRUE}
    Kinds = {"stream", "bblother", "bblbad", "ctrl", "junk", "big"}
SPECIFICATION RxSpec
INVARIANTS IoRxTypeOK RedirectInOrder MainCountedOnce
PROPERTY EveryFrameHandled
