CONSTANTS
  c1 = c1
  c2 = c2
  Clients = {c1, c2}
  MaxWrites = 3
  Operations = {"view", "load", "put", "update", "sync", "rename", "delete"}
  Guards <- MCGuards
  NoRow = NoRow
  RowIds = {k1, k2, k3}
CONSTRAINT OneWild
SYMMETRY KeySymmetry
SPECIFICATION Spec
CHECK_DEADLOCK FALSE
 
INVARIANT OneWinnerPerToken
INVARIANT CopiesInOrder
