SPECIFICATION MCSpec
CONSTANTS
  srv = srv
  dcc = dcc
  c1 = c1
  c2 = c2
  Sockets = {srv, dcc, c1, c2}
  OutgoingSockets = {srv, dcc}
  ServerSockets = {srv}
  GroupOf <- MCGroupOf
  GroupOrder <- MCGroupOrder
  Lengths = {1, 3}
  Limit = 4
  StoneTime = 2
  ConnectDelay = 1
  MaxSendQ = 2
  MaxMessages = 4
INVARIANTS Consistent FloodLimited
PROPERTIES ServedInOrder QueueDrains
