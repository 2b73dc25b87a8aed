CHECK_DEADLOCK FALSE
CONSTANTS Reader = {"facade"}
MaxPieces = 3
SPECIFICATION WSpec
INVARIANT TypedPath
