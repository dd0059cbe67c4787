\* Two callers and an engine that may die at any moment.
SPECIFICATION SysSpec
CONSTANTS
    c1 = c1  c2 = c2
    Callers <- TwoCallers
    Roles <- AnyRole
    NoCaller = NoCaller
    SeqModulus = 3
    PipeReplies = 1
SYMMETRY CallerSymmetry
INVARIANTS
    NoProtocolError
    AtMostOnce
    NoWorkBehindTheCaller
    NoFalseAlarm
PROPERTIES
    ImplementsWorkerSession
CHECK_DEADLOCK FALSE
