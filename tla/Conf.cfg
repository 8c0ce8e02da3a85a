CONSTANT WarningNames <- MC_WarningNames
CONSTANT Texts <- MC_Texts
CONSTANT Dir <- MC_Dir
CONSTANT None = None
SPECIFICATION Spec
\* A load ends, loaded or failed, and jsl goes on to lint.
CHECK_DEADLOCK FALSE
INVARIANT TypeOK
INVARIANT LoadedAsDocumented
