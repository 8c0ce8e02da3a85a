CONSTANT Comments <- MC_Comments
SPECIFICATION Spec
CHECK_DEADLOCK FALSE
INVARIANT GrammarRecognized
INVARIANT TypeOK
