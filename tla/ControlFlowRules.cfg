CONSTANT Trees <- MC_Trees
SPECIFICATION Spec
CHECK_DEADLOCK FALSE
INVARIANT TypeOK
INVARIANT ExitPointsSound
INVARIANT FallthroughReported
INVARIANT ReturnValueReported
INVARIANT UnreachableIsUnreachable
