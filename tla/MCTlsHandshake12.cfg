CONSTANTS
  Tls13 = FALSE
  None = None
  Plans <- MCPlans
SPECIFICATION FairSpec
INVARIANTS DamageIsFoundOut LastFlight CompatibleSucceeds Authenticated FailedNotOffered
PROPERTIES Agrees EverythingEnds
CHECK_DEADLOCK FALSE
