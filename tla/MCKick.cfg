SPECIFICATION Spec
CONSTANTS
  alice = alice
  Alice = Alice
  bob = bob
  aliceHome = aliceHome
  AliceWork = AliceWork
  bobHome = bobHome
  lobby = lobby
  Lobby = Lobby
  NoProc = NoProc
  NoJid = NoJid
  Torn = Torn
  NoArg = NoArg
  c1 = c1
  c2 = c2
  a1 = a1
  Conn = {c1, c2}
  Admin = {a1}
  Bare <- MCBare
  Jid = {aliceHome, AliceWork}
  BareOf <- MCBareOf
  Fold <- MCFold
  RoomNames = {lobby}
  Targets = {alice}
  Traffic = {"auth", "avail", "end", "kick", "starttls", "iq", "direct"}
  MaxStanzas = 3
  MaxRequests = 2
  MaxBuffered = 1
SYMMETRY Interchangeable
INVARIANTS
  LockDiscipline
  KickedIsClosed
  ParkedWasKicked
PROPERTIES
  ConflictResolved
