\* All streams of up to seven bytes; the buffer is shorter than a frame.
SPECIFICATION Spec
CONSTANTS
    MaxFrame = 3
    BufferSize = 2
    MaxInput = 7
INVARIANTS
    FramesAreLines
\* The conversation ends.
CHECK_DEADLOCK FALSE
