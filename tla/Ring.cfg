\* Three nodes of which one is killed; or, without an experiment, one call of awaitCompletion or retry.
CONSTANTS
  n1 = n1
  n2 = n2
  n3 = n3
  twice = twice
  never = never
  plain = plain
  Nodes = {n1, n2, n3}
  kill_portion = 50
  NoNode = NoNode
  Unlimited = Unlimited
  Calls <- MCCalls
  Retried <- MCRetried
  Delayed <- MCDelayed
  Limit <- MCLimit
SPECIFICATION RingSpec
INVARIANTS TypeOK NullErrorOnlyForZero AtMostOneLateAttempt LeftThreadIsTold OneRing
PROPERTIES ImplementsTimedCall 
\* The experiment is over, or the call has returned.
CHECK_DEADLOCK FALSE
