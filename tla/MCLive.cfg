SPECIFICATION FairSpec
CONSTANTS
  alice = alice
  Alice = Alice
  bob = bob
  aliceHome = aliceHome
  AliceWork = AliceWork
  bobHome = bobHome
  lobby = lobby
  Lobby = Lobby
  NoProc = NoProc
  NoJid = NoJid
  Torn = Torn
  NoArg = NoArg
  c1 = c1
  c2 = c2
  Conn = {c1, c2}
  Admin = {}
  Bare <- MCBare
  Jid = {aliceHome}
  BareOf <- MCBareOf
  Fold <- MCFold
  RoomNames = {lobby}
  Targets = {alice}
  Traffic = {"auth", "avail", "starttls", "end"}
  MaxStanzas = 3
  MaxRequests = 1
  MaxBuffered = 1
PROPERTIES
  LockReleased
  DeadLeaves
