\* Every document of up to five lines of the seven kinds.
SPECIFICATION Spec
CONSTANT MaxLines = 5
INVARIANTS BodyInOrder TablesAreWholeRuns MetadataIsLeadingBlock
CHECK_DEADLOCK FALSE
