\* Two callers, request IDs 1..2 and then exhaustion.
SPECIFICATION Spec
CONSTANTS
    c1 = c1  c2 = c2
    Callers <- TwoCallers
    Roles <- AnyRole
    NoCaller = NoCaller
    SeqModulus = 3
    PipeReplies = 1
SYMMETRY CallerSymmetry
INVARIANTS
    TypeOK
    OneInFlight
    RequestIdsIncrease
    AnswersCorrelate
    GiveUpReaps
    ShutdownIsFinal
\* A Start that was cancelled leaves no session: nothing more can happen.
CHECK_DEADLOCK FALSE
PROPERTIES
    NeverReopened
    ImplementsSerialSession
