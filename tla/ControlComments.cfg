CONSTANT Scripts <- MC_AllScripts
CONSTANT Confs <- MC_Confs
CONSTANT MaxPos <- MC_MaxPos
SPECIFICATION Spec
CHECK_DEADLOCK FALSE
INVARIANT TypeOK
INVARIANT IgnoresMatchPairing
INVARIANT MismatchAccounting
INVARIANT MarkerUsedWhateverConf
INVARIANT MarkerFateUnique
INVARIANT PostScanSuppressed
