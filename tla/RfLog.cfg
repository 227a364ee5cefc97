\* The RF log over three rollovers: lines of two cells, two lines to a file, and
\* a copy whose chunks end in the middle of a line.
SPECIFICATION Spec
CONSTANTS
    MaxLines = 5
    LineLen = 2
    MaxBytes = 4
    ChunkLen = 3
INVARIANTS RfLogTypeOK KeptIsSuffix CapKept
PROPERTIES RollKeepsLines
