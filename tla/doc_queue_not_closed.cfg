SPECIFICATION OutboxSpec
CONSTANTS
  Replicas = {r1}
  Channels = {email, sms}
  BatchSize = 1
  MaxAttempts = 1
  RetryBase = 1
  DedupWindow = 1
  MaxRows = 2
  MaxTroubles = 0
  Nobody = Nobody
PROPERTY
  QueueStaysOpen
