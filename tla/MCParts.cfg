CONSTANTS
  None = None
  Tls13 = FALSE
  ClientConfigs <- MCClientConfigs
  ServerConfigs <- MCServerConfigs
  Clients = {c1, c2}
  Keys = {k1, k2, k3}
  Capacity = 2
  MaxSessions = 3
  Goroutines = {g1, g2}
  Jobs = {"serve", "clone"}
  MaxKeys = 4
  Processes = {p1, p2}
  MaxPairs = 3
  Sessions = {s1, s2}
  Workers = {w1}
  Users = {u1}
  Passwords = {Empty, secret}
  Empty = Empty
  Patience = {TRUE, FALSE}
  MaxTokens = 8
  MaxDepth = 3
SPECIFICATION Spec
INVARIANTS NegotiatesBest KeepsMostRecent OfferedToItsServer KeysReady TicketsOpen CertificateKept KickFollowsChange StanzasWhole ReadsBack
PROPERTY LosesNoOther
CHECK_DEADLOCK FALSE
