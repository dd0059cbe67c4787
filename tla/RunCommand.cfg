\* One command, one session, an engine that may die.
SPECIFICATION RunFairSpec
CONSTANTS
    Main = Main
    Callers = {Main}
    Roles <- MainRole
    NoCaller = NoCaller
    SeqModulus = 4
    PipeReplies = 1
INVARIANTS
    NothingLeftBehind
    ZeroMeansDone
PROPERTIES
    SignalEndsRun
\* The command ends.
CHECK_DEADLOCK FALSE
