\* Jumps at every size, alone and around each other, and all operands.
CONSTANT Streams <- AllStreams
SPECIFICATION Spec
INVARIANTS TypeOK LayoutIsSettled CodeFits ReadsBack BranchesLand
PROPERTY GenerateEnds
CHECK_DEADLOCK FALSE
