\* Two clients, two keys, room for one in the table, transactions of two commands.
CONSTANTS
  a = a
  b = b
  k1 = k1
  k2 = k2
  Clients = {a, b}
  Keys = {k1, k2}
  Prefixes <- MCPrefixes
  Options <- MCOptions
  NoClient = NoClient
  Gone = Gone
  Same = Same
  All = All
  MaxTable = 1
  MaxOps = 2
SPECIFICATION Spec
INVARIANT NoLoopToldOfOthers
