\* As shipped, a batch takes longer than its lease lasts: its tail is claimed twice.
SPECIFICATION FairSpec
CONSTANTS
  Event = {e1, e2}
  Value = {m1, m2}
  Worker = {w1, w2}
  NoWorker = NoWorker
  Batch = 2
  EventTime = 1
  Lease = 1
  Backoff <- TwoAttempts
  RetainDelivered = 1
  RetainFailed = 2
  Mishaps = 1
INVARIANTS TypeOK OneWorkerPerEvent NeverPostSettled OutcomeIsTrue
PROPERTIES OutcomeIsFinal EveryEventSettles ImplementsContract
