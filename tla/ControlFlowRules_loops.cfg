CONSTANT Trees <- MC_LoopTrees
SPECIFICATION Spec
CHECK_DEADLOCK FALSE
INVARIANT UnreachableIsUnreachable
