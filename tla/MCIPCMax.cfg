\* Expected to fail: a sender sleeps at two messages, not at ten.
SPECIFICATION Spec
CONSTANTS
  m1 = m1
  m2 = m2
  Thread = {0, 1, 2}
  Idle = 0
  None = None
  Obj <- WaitObjects
  Priority <- AllZero
  MaxListSize = 1
  Period = 1800
  Slice = 1000
  Payload = {m1, m2}
  Sends <- Pair
INVARIANT SleepsOnlyAtMax
