SPECIFICATION Spec
CONSTANT N = 1
INVARIANTS IInv RetiredIsCut IdleVerdictIsTrue NoLostWakeup
PROPERTIES EngineEnds
CHECK_DEADLOCK FALSE
