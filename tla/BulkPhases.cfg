SPECIFICATION Spec
CONSTANTS
  m = m
  a = a
  b = b
  p = p
  DirectOp = {m}
  BulkOp = {a, b, p}
  Direct <- PhasesDirect
  Schedule <- PhasesSchedule
  Phase <- PhasesPhase
  Timeout = 2
INVARIANT OutcomesSound
INVARIANT AtMostOneSave
INVARIANT PhaseBarrier
PROPERTY StepsSound
PROPERTY KeepsContract
PROPERTY Terminates
CHECK_DEADLOCK FALSE
