\* Four threads on three levels, one of them a zombie, and a slice of two ticks.
\* Nothing is promised to the lower levels.
SPECIFICATION FairSpec
CONSTANTS
  t0 = t0
  t1 = t1
  t2 = t2
  t3 = t3
  Thread = {t0, t1, t2, t3}
  None = None
  Obj = {o1}
  First = t0
  Priority <- Mixed
  MaxListSize = 10
  Period = 1800
  Slice = 3000
  MaxThread = 2
INVARIANTS TypeOK QueuesAreExact OnlyCurrentRuns CurrentIsNotBlocked
PROPERTIES SwitchesToHighest ReadyGetsCPU
