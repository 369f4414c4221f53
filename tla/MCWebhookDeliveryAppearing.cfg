\* A metric that was absent and appears is a restatement the contract refuses.
SPECIFICATION Spec
CONSTANTS
  Event = {e1, e2}
  Value = {m1, m2}
  Worker = {w1, w2}
  NoWorker = NoWorker
  Batch = 2
  EventTime = 1
  Lease = 1
  Backoff <- TwoAttempts
  RetainDelivered = 1
  RetainFailed = 2
  Mishaps = 0
INVARIANT DeadLetterWasPosted
