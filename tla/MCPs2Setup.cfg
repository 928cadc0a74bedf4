SPECIFICATION Spec
CONSTANTS
    KeyBytes <- Bytes
    MaxKeys = 2
    MaxResend = 2
    MaxRaises = 2
    Lines = {1, 2, 8, 9}
INVARIANTS
    SuccessAgrees
    HandlerReady
    QuietSetupSucceeds
    InServiceMatchesHandlers
PROPERTIES
    SetupReturns
    OtherLinesServed
CHECK_DEADLOCK FALSE
