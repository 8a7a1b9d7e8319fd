SPECIFICATION Spec
CONSTANTS
  alice = alice
  Alice = Alice
  bob = bob
  aliceHome = aliceHome
  AliceWork = AliceWork
  bobHome = bobHome
  lobby = lobby
  Lobby = Lobby
  NoProc = NoProc
  NoJid = NoJid
  Torn = Torn
  NoArg = NoArg
  c1 = c1
  c2 = c2
  Conn = {c1, c2}
  Admin = {}
  Bare <- MCBare
  Jid = {aliceHome}
  BareOf <- MCBareOf
  Fold <- MCFold
  RoomNames = {lobby, Lobby}
  Targets = {Lobby}
  Traffic = {"auth", "avail", "join", "leave", "group"}
  MaxStanzas = 5
  MaxRequests = 1
  MaxBuffered = 0
SYMMETRY Interchangeable
INVARIANTS
  NoDuplicates
  NoGhost
  LoopsSeeTheList
PROPERTIES
  ImplementsRoster
