\* One message and two workers: what becomes of it whatever happens.
SPECIFICATION MailFairSpec
CONSTANTS
  m1 = m1
  u1 = u1
  Messages = {m1}
  People = {u1}
  OwnerOf <- OwnMail
  Workers = {w1, w2}
  MaxAttempts = 2
  MaxCrashes = 1
  MaxRetries = 1
  MaxLapses = 1
  MailEvents = {"slow", "reports", "panel", "removal", "retention"}
CHECK_DEADLOCK FALSE
INVARIANTS MailTypeOK SilencedStaysSilent OneCopyPerKey
PROPERTY EveryMailSettles
