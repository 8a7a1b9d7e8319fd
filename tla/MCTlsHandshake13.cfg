CONSTANTS
  Tls13 = TRUE
  Lifetime = 1
  None = None
  Plans <- MCPlans
SPECIFICATION FairSpec
INVARIANTS CompatibleSucceeds Authenticated TicketSecretsMatch
PROPERTIES Agrees EverythingEnds
CHECK_DEADLOCK FALSE
