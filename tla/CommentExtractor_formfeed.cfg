CONSTANT Texts <- MC_FormFeedTexts
CONSTANT StartPositions <- MC_StartPositions
SPECIFICATION FindSpec
CHECK_DEADLOCK FALSE
INVARIANT CommentsFound
