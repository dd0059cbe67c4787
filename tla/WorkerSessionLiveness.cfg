\* Two callers, one request ID; no symmetry, since the properties are temporal.
SPECIFICATION FairSpec
CONSTANTS
    c1 = c1  c2 = c2
    Callers <- TwoCallers
    Roles <- RunAndClose
    NoCaller = NoCaller
    SeqModulus = 2
    PipeReplies = 1
PROPERTIES
    CancelledCallReturns
    CloseInterrupts
    DeliveredAnswerReturns
CHECK_DEADLOCK FALSE
