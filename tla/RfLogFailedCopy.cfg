\* A copy that fails after <path>.1 was opened.
SPECIFICATION Spec
CONSTANTS
    MaxLines = 5
    LineLen = 2
    MaxBytes = 4
    ChunkLen = 3
INVARIANT PrevReplacedByCopy
