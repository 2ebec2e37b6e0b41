SPECIFICATION Spec
INVARIANT TrigramsAsThrown
CHECK_DEADLOCK FALSE
