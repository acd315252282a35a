SPECIFICATION Spec
CONSTANTS
  d1 = d1
  d2 = d2
  resend = resend
  mailgun = mailgun
  Rows = {m1}
  Drainers = {d1, d2}
  Providers = {resend, mailgun}
  DrainerProvider <- Switched
  InlineMaxAttempts = 3
  MaxAttempts = 5
  Lease = 2
  Settle = 1
  Prompt = FALSE
  BackoffBase = 1
  BackoffCap = 3
  TokenTtl = 6
  MaxPendingAge = 9
  RetentionAge = 10
  MaxFaults = 2
  None = None
INVARIANTS
  PayloadWhileNeeded
  OneProviderPerRow
PROPERTIES
  NeverRequeued
CHECK_DEADLOCK FALSE
