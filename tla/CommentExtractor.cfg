CONSTANT Texts <- MC_AllTexts
CONSTANT StartPositions <- MC_StartPositions
SPECIFICATION FindSpec
CHECK_DEADLOCK FALSE
INVARIANT TypeOK
INVARIANT RoundTrip
INVARIANT TextMatches
INVARIANT CommentsFound
INVARIANT VersionChecked
INVARIANT SkippedAtLastVersion
