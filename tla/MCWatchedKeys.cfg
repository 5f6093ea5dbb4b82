CONSTANTS
  Clients = {c1, c2}
  Keys = {k1}
  Dbs = {d1, d2}
  d1 = d1
  d2 = d2
  DefaultDb = d1
  Commands <- MCCommands
  NoClient = NoClient
  NoDb = NoDb
  MaxQueue = 1
SPECIFICATION Spec
INVARIANTS
  TypeOK
  TablesAgree
  CommitsUnchanged
  NoSpuriousAbort
  ExecIntact
SYMMETRY Symmetry
