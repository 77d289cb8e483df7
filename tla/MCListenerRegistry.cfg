CONSTANTS
  c1 = c1
  c2 = c2
  i1 = i1
  i2 = i2
  top = top
  sub = sub
  Conns <- MCConns
  Ids <- MCIds
  Filters = {f}
  Relays <- MCRelays
  Top = top
  MaxListeners <- MCMaxListeners
SYMMETRY Symmetry
SPECIFICATION Spec
INVARIANTS TypeOK IndexIsRight
PROPERTY ImplementsTable
