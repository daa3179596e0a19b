\* Two threads talk to each other, next to the idle thread.  All priorities
\* are zero, so one list is enough, and one tick ends a slice, so that a thread
\* can be preempted between any two of its calls.
SPECIFICATION FairSpec
CONSTANTS
  m1 = m1
  m2 = m2
  Thread = {0, 1, 2}
  Idle = 0
  None = None
  Obj <- WaitObjects
  Priority <- AllZero
  MaxListSize = 1
  Period = 1800
  Slice = 1000
  Payload = {m1, m2}
  Sends <- Pair
INVARIANTS NoSleepWithMail NoSleepWithRoom
PROPERTIES ImplementsChannels CallsReturn
