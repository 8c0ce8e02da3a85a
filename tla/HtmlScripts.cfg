CONSTANT Texts <- MC_Texts
SPECIFICATION Spec
\* _findhtmlscripts ends when its tags run out (or an assertion ends it).
CHECK_DEADLOCK FALSE
INVARIANT TypeOK
INVARIANT ExtractedAsReference
