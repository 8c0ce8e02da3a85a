CONSTANT Files <- MC_Files
CONSTANT Names <- MC_Names
CONSTANT Programs <- MC_Programs
CONSTANT PathOrders <- MC_PathOrders
CONSTANT MaxDepth <- MC_MaxDepth
SPECIFICATION Spec
CHECK_DEADLOCK FALSE
INVARIANT UndeclaredSound
