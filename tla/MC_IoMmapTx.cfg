\* Both an interface with a TX thread and one served by the main-loop job.
CONSTANTS
    FrameNr <- MC_FrameNr
    IoBurst <- MC_IoBurst
    Modes = {FALSE, TRUE}
    MaxCtrl <- MC_MaxCtrl
    MaxStream <- MC_MaxStream
SPECIFICATION IoTxSpec
INVARIANTS
    IoTxTypeOK
    NotifyPending
PROPERTIES
    TxImplementsFifo
    AllSent
