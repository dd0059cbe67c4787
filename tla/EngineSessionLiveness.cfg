\* Two runners and an engine that may die; no symmetry, the property is temporal.
SPECIFICATION SysFairSpec
CONSTANTS
    c1 = c1  c2 = c2
    Callers <- TwoCallers
    Roles <- TwoRunners
    NoCaller = NoCaller
    SeqModulus = 3
    PipeReplies = 1
PROPERTIES
    RequestsAnswered
CHECK_DEADLOCK FALSE
