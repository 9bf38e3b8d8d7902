\* An interface with a TX thread.
CONSTANTS
    FrameNr <- MC_FrameNr
    IoBurst <- MC_IoBurst
    Modes = {TRUE}
    MaxCtrl <- MC_MaxCtrl
    MaxStream <- MC_MaxStream
SPECIFICATION IoTxSpec
PROPERTY
    EventuallySent
