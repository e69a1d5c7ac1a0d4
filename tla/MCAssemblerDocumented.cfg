\* Branches of 120 and of 130 bytes.
CONSTANT Streams <- LongBranches
SPECIFICATION Spec
INVARIANT JumpsLandAsDocumented
CHECK_DEADLOCK FALSE
