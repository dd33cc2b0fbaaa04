\* The server and one command, beside each other or one after the other.
CONSTANTS
  Server = Server
  c1 = c1
  Plain = Plain
  Torn = Torn
  Unended = Unended
  Commands <- One
  MaxEvents = 2
  MaxKeys = 2
  MaxIds = 2
  MaxKills = 1
  OldRows = 1
SPECIFICATION Spec
INVARIANTS FileIsChain KeyringCoversFile AckedSurvives EncryptedAtRest OneKeySigns
CHECK_DEADLOCK FALSE
