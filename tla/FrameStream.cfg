\* Every stream of up to eight cells, cut by reads of up to five: two XR
\* headers, or several DATA frames, in one stream and in one read.
SPECIFICATION Spec
CONSTANTS
    Cells = {0, 1, 2}
    MaxPayload = 1
    MaxStream = 8
    MaxRead = 5
INVARIANTS FramesExact NeverStuck
