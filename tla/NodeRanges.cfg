CONSTANT MaxOffset <- MC_MaxOffset
SPECIFICATION Spec
INVARIANT TypeOK
 
INVARIANT HasMatchesCovered
PROPERTY IntervalSetRefined
