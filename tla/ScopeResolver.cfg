CONSTANT Trees <- MC_Trees
CONSTANT Builtins <- MC_Builtins
CONSTANT Declarations <- MC_Declarations
SPECIFICATION Spec
CHECK_DEADLOCK FALSE
INVARIANT TypeOK
INVARIANT UndeclaredExact
INVARIANT UnreferencedExact
INVARIANT HidesExact
INVARIANT RedeclaredExact
