SPECIFICATION WSpec
CONSTANTS
  Clients = {1, 2}
  Worker = 0
  Capacity = 2
  Chunk = 2
  Wishes <- MCWishes
  Mortal = {0}
INVARIANTS WTypeOK AnswersIntact PeersStayInSync
PROPERTIES ImplementsChannel AnsweredOrJammed
CHECK_DEADLOCK FALSE
