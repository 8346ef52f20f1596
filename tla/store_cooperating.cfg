SPECIFICATION CooperatingSpec
CONSTANTS
  Proc = {p1, p2, p3}
  LockInode = {l1}
  DataInode = {d1, d2}
  Ops <- CooperatingOps
  LOCK_RETRY_COUNT = 2
  Nil = Nil
  Torn = Torn
SYMMETRY Symmetry
PROPERTIES
  NoLostUpdate
  ImplementsAtomicStore
