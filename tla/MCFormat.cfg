SPECIFICATION Spec
CONSTANT Sources <- MCSources
INVARIANTS RoundTrip ReturnsFlagged
CHECK_DEADLOCK FALSE
