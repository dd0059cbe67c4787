\* More stderr than the pipe and the tail hold, and a stdout of one byte more
\* than the capped buffer holds.
SPECIFICATION FairSpec
CONSTANTS
    PipeSize = 3
    Capacity = 2
    MaxFrame = 2
    MaxOutput = 6
INVARIANTS
    TailIsTheEnd
    AnswerIsOnePayload
PROPERTIES
    OutputFlows
\* The child ends.
CHECK_DEADLOCK FALSE
